---- MODULE Spec2Model ----
(***************************************************************************)
(* Model of the signal collector and signal merger of                      *)
(* src/analyzers/data-collector-enhanced.ts.                               *)
(*                                                                         *)
(* Numbers.  The merger computes with decimal fractions.  The model keeps  *)
(* them as exact fixed-point integers: a weight w is held as w * 10000     *)
(* (One = 1.0), a feedback multiplier m as m * 100, and a category score   *)
(* as score * 10^7, so that every product the code forms is an integer.    *)
(*                                                                         *)
(* Text.  A role / focus / tech-stack text is held as the set of regular-  *)
(* expression alternatives that occur in it; a regex matches a text iff    *)
(* one of its alternatives is in that set.  An absent optional field and   *)
(* an empty one take the same branches in the code and are one value here. *)
(***************************************************************************)
EXTENDS Integers, Sequences, FiniteSets, TLC

VARIABLES
  conversationCategories, \* mergeSignals argument: ordered category names
  userMd,                 \* mergeSignals argument: static profile or null
  feedback,               \* mergeSignals argument: feedback data or null
  weights,                \* mergeSignals locals: the three fusion weights
  merged,                 \* mergeSignals return value
  options,                \* collect argument: skipTwitter / includeWallet
  session,                \* what the session reader answers for the user
  twitterApi,             \* what the Twitter integration answers for the user
  walletStore,            \* what the wallet storage answers for the user
  pc,                     \* position of the collect call
  userData,               \* the UserData value collect builds and returns
  qualityScore,           \* last result of getDataQualityScore, -1 before a call
  categoryScores,         \* mergeSignals locals: the scoreboard before / after feedback
  fetchLog,               \* collect: the fetches started and settled so far, in order
  dimensions,             \* classifier argument: conviction, intuition, contribution
  identityType,           \* classifier result, "" before the call
  candidates,             \* scorer argument: the candidate skills
  ranked,                 \* scorer result
  catalog,                \* what the ClawHub search API answers per query
  request,                \* ClawHub client call and its arguments
  hubResult,              \* ClawHub client return value
  sufficient,             \* last result of hasSufficientData
  mdFile,                 \* discovery sync: bloom-discoveries.md
  stateFile,              \* discovery sync: .bloom-discovery-state.json
  sync,                   \* discovery sync: the syncDiscoveries call in progress
  walletFile,             \* wallet storage: user-wallets.json
  savers,                 \* wallet storage: the saveUserWallet calls in progress
  cryptoInput,            \* encryption: private key and secret
  ciphertexts,            \* encryption: results of encryptPrivateKey
  decrypted               \* encryption: results of decryptPrivateKey

mergeVars == <<conversationCategories, userMd, feedback, weights, merged, categoryScores>>

collectVars ==
  <<options, session, twitterApi, walletStore, pc, userData, qualityScore, fetchLog,
    sufficient>>

classifyVars == <<dimensions, identityType>>

rankVars == <<candidates, ranked>>

hubVars == <<catalog, request, hubResult>>

syncVars == <<mdFile, stateFile, sync>>

walletVars == <<walletFile, savers>>

cryptoVars == <<cryptoInput, ciphertexts, decrypted>>

vars == <<conversationCategories, userMd, feedback, weights, merged,
          options, session, twitterApi, walletStore, pc, userData, qualityScore,
          categoryScores, fetchLog, dimensions, identityType, candidates, ranked,
          catalog, request, hubResult, sufficient, mdFile, stateFile, sync,
          walletFile, savers, cryptoInput, ciphertexts, decrypted>>

----------------------------------------------------------------------------
(* Bounds of the explored inputs *)

MaxConvLen == 4

MaxEventCount == 16

----------------------------------------------------------------------------
(* Generic helpers *)

Min(a, b) == IF a < b THEN a ELSE b

Max(a, b) == IF a > b THEN a ELSE b

Range(s) == {s[i] : i \in DOMAIN s}

NoDuplicates(s) == \A i, j \in DOMAIN s : i # j => s[i] # s[j]

\* Array.prototype.slice(from0, to0) with 0-based, end-exclusive indices
Slice(s, from0, to0) == SubSeq(s, from0 + 1, Min(to0, Len(s)))

\* A JavaScript Set fed from a list: insertion order, first occurrence kept
RECURSIVE SetAddAll(_, _)
SetAddAll(acc, list) ==
  IF list = <<>> THEN acc
  ELSE SetAddAll(IF Head(list) \in Range(acc) THEN acc ELSE Append(acc, Head(list)),
                 Tail(list))

----------------------------------------------------------------------------
(* Weight schedule, mergeSignals lines 485-500 *)

One == 10000

\* variant: the 0.3 cap is missing
FeedbackWeight_Uncapped(eventCount) == eventCount * 200

FeedbackWeight(eventCount) == Min(3000, eventCount * 200)

UserMdWeight(hasUserMd, feedbackWeight) ==
  IF hasUserMd THEN Max(2000, 3000 - (feedbackWeight * 33) \div 100) ELSE 0

\* variant: the feedback share is not taken out of the conversation share
ConvWeight_IgnoresFeedback(userMdWeight, feedbackWeight) == One - userMdWeight

ConvWeight(userMdWeight, feedbackWeight) == One - userMdWeight - feedbackWeight

----------------------------------------------------------------------------
(* USER.md -> category mapping, lines 568-629.  Each table row is the set  *)
(* of alternatives of its regex and the category it maps to.               *)

ROLE_CATEGORY_MAP ==
  << [alts |-> {"bd", "sales", "growth", "business dev"},            category |-> "Marketing"],
     [alts |-> {"develop", "engineer", "programmer", "software", "coding"},
                                                                      category |-> "Development"],
     [alts |-> {"research", "scientist", "academic"},                category |-> "Education"],
     [alts |-> {"design", "ui", "ux", "creative"},                   category |-> "Design"],
     [alts |-> {"market", "seo", "content", "brand"},                category |-> "Marketing"],
     [alts |-> {"financ", "invest", "trad"},                         category |-> "Finance"],
     [alts |-> {"founder", "cto", "ceo", "co-founder"},              category |-> "Development"],
     [alts |-> {"community", "advocate", "ambassador"},              category |-> "Marketing"] >>

FOCUS_CATEGORY_MAP ==
  << [alts |-> {"defi", "crypto", "web3", "blockchain", "token", "dao", "nft", "onchain"},
                                                                      category |-> "Crypto"],
     [alts |-> {"ai", "llm", "agent", "machine learning", "gpt", "neural"},
                                                                      category |-> "AI Tools"],
     [alts |-> {"design", "ui", "ux", "figma"},                      category |-> "Design"],
     [alts |-> {"educat", "learn", "teach", "course"},               category |-> "Education"],
     [alts |-> {"wellness", "health", "fitness", "meditation"},      category |-> "Wellness"],
     [alts |-> {"productiv", "workflow", "automat"},                 category |-> "Productivity"] >>

TECH_CATEGORY_MAP ==
  << [alts |-> {"claude-code", "claude", "anthropic", "openai", "gpt"},
                                                                      category |-> "AI Tools"],
     [alts |-> {"typescript", "javascript", "python", "rust", "go", "java"},
                                                                      category |-> "Development"],
     [alts |-> {"solidity", "hardhat", "foundry", "ethers", "viem", "wagmi"},
                                                                      category |-> "Crypto"],
     [alts |-> {"react", "next", "vue", "svelte", "angular"},        category |-> "Development"],
     [alts |-> {"figma", "sketch", "adobe"},                         category |-> "Design"] >>

\* regex.test(text)
RegexTest(alts, text) == alts \cap text # {}

\* one "for (const [regex, category] of MAP) if (regex.test(text)) categories.add(category)"
RECURSIVE AddMatching(_, _, _, _)
AddMatching(categories, map, text, i) ==
  IF i > Len(map) THEN categories
  ELSE AddMatching(IF RegexTest(map[i].alts, text)
                     THEN SetAddAll(categories, <<map[i].category>>)
                     ELSE categories,
                   map, text, i + 1)

mapUserMdToCategories(u) ==
  LET afterRole  == AddMatching(<<>>, ROLE_CATEGORY_MAP, u.role, 1)
      afterFocus == AddMatching(afterRole, FOCUS_CATEGORY_MAP, u.currentFocus, 1)
  IN  AddMatching(afterFocus, TECH_CATEGORY_MAP, u.techStack, 1)

----------------------------------------------------------------------------
(* Dimension nudges from USER.md, lines 633-674 *)

\* variant: the value is passed through unclamped
clamp_PassThrough(value, min, max) == value

clamp(value, min, max) == Max(min, Min(max, value))

\* the sums of lines 638-659, before the clamp
RawNudgeSums(u) ==
  LET styleConviction == IF u.workingStyle = "deep-focus" THEN 15
                         ELSE IF u.workingStyle \in {"explorer", "multitasker"} THEN -10
                         ELSE 0
      styleIntuition  == IF u.workingStyle # "deep-focus"
                            /\ u.workingStyle \in {"explorer", "multitasker"} THEN 10 ELSE 0
      roleIntuition    == IF RegexTest({"research"}, u.role) THEN 10 ELSE 0
      roleContribution == IF RegexTest({"community", "bd", "business dev", "ambassador"}, u.role)
                          THEN 10 ELSE 0
      roleConviction   == IF RegexTest({"founder", "cto", "ceo", "co-founder"}, u.role)
                          THEN 10 ELSE 0
  IN  [conviction   |-> styleConviction + roleConviction,
       intuition    |-> styleIntuition + roleIntuition,
       contribution |-> roleContribution]

\* variant: the sums are returned without the clamp of lines 661-666
calculateDimensionNudges_Unclamped(u) == RawNudgeSums(u)

calculateDimensionNudges(u) ==
  LET sums == RawNudgeSums(u)
  IN  [conviction   |-> clamp(sums.conviction, -15, 15),
       intuition    |-> clamp(sums.intuition, -15, 15),
       contribution |-> clamp(sums.contribution, -15, 15)]

\* Math.round(nudge * (userMdWeight / 0.3)), lines 553-555
ScaleNudge(nudge, userMdWeight) ==
  LET \* Math.round: nearest integer, halves towards +infinity; num/den with den > 0
      RoundDiv(num, den) ==
        (2 * num + den) \div (2 * den)
  IN  RoundDiv(nudge * userMdWeight, 3000)

----------------------------------------------------------------------------
(* The scoreboard: a JavaScript Map<string, number>, i.e. a score per key  *)
(* together with the order in which the keys were first inserted.          *)

EmptyMap == [order |-> <<>>, score |-> <<>>]

MapHas(m, cat) == cat \in Range(m.order)

\* categoryScores.get(cat) || 0
MapGetOrZero(m, cat) ==
  IF MapHas(m, cat)
    THEN m.score[CHOOSE i \in DOMAIN m.order : m.order[i] = cat]
    ELSE 0

\* categoryScores.set(cat, value)
MapSet(m, cat, value) ==
  IF MapHas(m, cat)
    THEN [order |-> m.order,
          score |-> [i \in DOMAIN m.order |-> IF m.order[i] = cat THEN value ELSE m.score[i]]]
    ELSE [order |-> Append(m.order, cat), score |-> Append(m.score, value)]

\* variant: later positions score higher instead of lower
PositionBonus_Increasing(k) == 10 + (k - 1)

\* positionBonus = 1.0 - (i * 0.1) in tenths, for the 1-based position k = i + 1
PositionBonus(k) == 10 - (k - 1)

\* variant: an entry whose position bonus is 0 or less is skipped
RECURSIVE AddCategories_SkipsNonPositive(_, _, _, _)
AddCategories_SkipsNonPositive(m, cats, weight, k) ==
  IF k > Len(cats) THEN m
  ELSE AddCategories_SkipsNonPositive(
         IF PositionBonus(k) > 0
           THEN MapSet(m, cats[k],
                       MapGetOrZero(m, cats[k]) + weight * PositionBonus(k) * 100)
           ELSE m,
         cats, weight, k + 1)

\* the loops of lines 501-505 and 508-512
RECURSIVE AddCategories(_, _, _, _)
AddCategories(m, cats, weight, k) ==
  IF k > Len(cats) THEN m
  ELSE AddCategories(MapSet(m, cats[k],
                            MapGetOrZero(m, cats[k]) + weight * PositionBonus(k) * 100),
                     cats, weight, k + 1)

\* one entry of feedback.categoryWeights, lines 517-524; an existing score
\* comes from the two loops above and is a multiple of 100, so dividing
\* before multiplying by the multiplier (in hundredths) is exact
ApplyFeedbackEntry(m, cat, weight, feedbackWeight) ==
  LET existing == MapGetOrZero(m, cat)
  IN  IF existing > 0 THEN MapSet(m, cat, (existing \div 100) * weight)
      ELSE IF weight > 120 THEN MapSet(m, cat, feedbackWeight * (weight - 100) * 10)
      ELSE m

\* the loop of lines 515-526 over Object.entries(feedback.categoryWeights)
RECURSIVE ApplyFeedback(_, _, _, _)
ApplyFeedback(m, categoryWeights, feedbackWeight, k) ==
  IF k > Len(categoryWeights) THEN m
  ELSE ApplyFeedback(ApplyFeedbackEntry(m, categoryWeights[k].cat,
                                        categoryWeights[k].weight, feedbackWeight),
                     categoryWeights, feedbackWeight, k + 1)

\* entries sorted by score descending; Array.prototype.sort is stable, so
\* among the highest scores the earliest inserted entry comes first
RECURSIVE SortByScoreDesc(_, _)
SortByScoreDesc(order, score) ==
  IF order = <<>> THEN <<>>
  ELSE LET best == CHOOSE i \in DOMAIN order :
                     /\ \A j \in DOMAIN order : score[j] <= score[i]
                     /\ \A j \in 1..(i - 1) : score[j] < score[i]
           rest == [j \in 1..(Len(order) - 1) |-> IF j < best THEN j ELSE j + 1]
       IN  <<order[best]>> \o
           SortByScoreDesc([j \in DOMAIN rest |-> order[rest[j]]],
                           [j \in DOMAIN rest |-> score[rest[j]]])

\* lines 497-512: the scoreboard after the conversation and USER.md loops
BaseScoreboard(conv, u, fb) ==
  LET feedbackWeight == FeedbackWeight(IF fb.present THEN fb.eventCount ELSE 0)
      userMdWeight   == UserMdWeight(u.present, feedbackWeight)
      convWeight     == ConvWeight(userMdWeight, feedbackWeight)
      userMdCategories == IF u.present THEN mapUserMdToCategories(u) ELSE <<>>
      afterConv   == AddCategories(EmptyMap, conv, convWeight, 1)
  IN  AddCategories(afterConv, userMdCategories, userMdWeight, 1)

\* lines 514-526: the scoreboard after the feedback loop
FinalScoreboard(conv, u, fb) ==
  LET feedbackWeight == FeedbackWeight(IF fb.present THEN fb.eventCount ELSE 0)
      base == BaseScoreboard(conv, u, fb)
  IN  IF fb.present THEN ApplyFeedback(base, fb.categoryWeights, feedbackWeight, 1)
      ELSE base

\* lines 497-531: the scoreboard after all three stages, sorted
SortedCategories(conv, u, fb) ==
  LET afterFeedback == FinalScoreboard(conv, u, fb)
  IN  SortByScoreDesc(afterFeedback.order, afterFeedback.score)

\* variant: one category too many is taken
MainSlice_TakeFour(sortedCategories) == Slice(sortedCategories, 0, 4)

\* line 533
MainSlice(sortedCategories) == Slice(sortedCategories, 0, 3)

\* variant: the declared interests come before the scored categories
SubCategories_InterestsFirst(sortedCategories, userMdSubCategories) ==
  Slice(SetAddAll(SetAddAll(<<>>, userMdSubCategories),
                  Slice(sortedCategories, 3, Len(sortedCategories))),
        0, 10)

\* lines 536-544
SubCategories(sortedCategories, userMdSubCategories) ==
  Slice(SetAddAll(SetAddAll(<<>>, Slice(sortedCategories, 3, Len(sortedCategories))),
                  userMdSubCategories),
        0, 10)

\* lines 548-555
DimensionNudges(u, userMdWeight) ==
  LET raw == IF u.present THEN calculateDimensionNudges(u)
             ELSE [conviction |-> 0, intuition |-> 0, contribution |-> 0]
  IN  [conviction   |-> ScaleNudge(raw.conviction, userMdWeight),
       intuition    |-> ScaleNudge(raw.intuition, userMdWeight),
       contribution |-> ScaleNudge(raw.contribution, userMdWeight)]

\* variant: fewer than three ranked categories give an empty result
MainOrFallback_NeedsThree(mainCategories, conv) ==
  IF Len(mainCategories) >= 3 THEN mainCategories ELSE <<>>

\* line 558: mainCategories.length > 0 ? mainCategories : conversationCategories
MainOrFallback(mainCategories, conv) ==
  IF Len(mainCategories) > 0 THEN mainCategories ELSE conv

\* lines 479-564; conversationDimensions is accepted by the code but never read
mergeSignals(conv, u, fb) ==
  LET feedbackWeight == FeedbackWeight(IF fb.present THEN fb.eventCount ELSE 0)
      userMdWeight   == UserMdWeight(u.present, feedbackWeight)
      sortedCategories == SortedCategories(conv, u, fb)
      mainCategories   == MainSlice(sortedCategories)
  IN  [returned         |-> TRUE,
       mainCategories   |-> MainOrFallback(mainCategories, conv),
       subCategories    |-> SubCategories(sortedCategories,
                                          IF u.present THEN u.interests ELSE <<>>),
       dimensionNudges  |-> DimensionNudges(u, userMdWeight),
       excludedSkillIds |-> IF fb.present THEN fb.excludeSkillIds ELSE {},
       categoryWeights  |-> IF fb.present THEN fb.categoryWeights ELSE <<>>,
       threw            |-> FALSE]

\* x.field is undefined
Absent(x, field) == field \in x.absent

\* variant: currentFocus is joined without the test of line 609
FocusGuard_Always(u) == TRUE

\* "if (userMd.currentFocus)" of line 609
FocusGuard(u) == ~Absent(u, "currentFocus")

\* mapUserMdToCategories raises a TypeError: join is called on undefined
mapUserMdToCategoriesThrows(u) ==
  LET \* "if (userMd.techStack)" of line 619
      TechGuard ==
        ~Absent(u, "techStack")
  IN  \/ ~u.present
      \/ FocusGuard(u) /\ Absent(u, "currentFocus")
      \/ TechGuard /\ Absent(u, "techStack")

\* calculateDimensionNudges raises a TypeError: toLowerCase of undefined
calculateDimensionNudgesThrows(u) ==
  LET \* "if (userMd.role)" of lines 600 and 651
      RoleGuard ==
        ~Absent(u, "role")
  IN  \/ ~u.present
      \/ RoleGuard /\ Absent(u, "role")

\* does the call raise instead of returning: a property of null or
\* undefined is read, or undefined is iterated
mergeSignalsThrows(conv, u, fb) ==
  LET \* "if (feedback?.categoryWeights)" of line 515
      CategoryWeightsGuard ==
        fb.present /\ ~Absent(fb, "categoryWeights")
  IN  LET \* "userMd?.interests ?? []" of line 494: is the list that line 541
          \* iterates over defined
          InterestsDefined ==
            TRUE
      IN  LET \* "userMd ?" of lines 488, 493 and 548
              UserMdGuard ==
                u.present
          IN  \/ UserMdGuard /\ mapUserMdToCategoriesThrows(u)
              \/ ~InterestsDefined
              \/ CategoryWeightsGuard /\ (~fb.present \/ Absent(fb, "categoryWeights"))
              \/ UserMdGuard /\ calculateDimensionNudgesThrows(u)

\* the three weights mergeSignals works with, lines 486-500
mergeWeights(u, fb) ==
  LET feedbackWeight == FeedbackWeight(IF fb.present THEN fb.eventCount ELSE 0)
      userMdWeight   == UserMdWeight(u.present, feedbackWeight)
  IN  [computed       |-> TRUE,
       feedbackWeight |-> feedbackWeight,
       userMdWeight   |-> userMdWeight,
       convWeight     |-> ConvWeight(userMdWeight, feedbackWeight)]

\* the scoreboard mergeSignals holds after line 512 (base) and after line 526 (final)
mergeScoreboard(conv, u, fb) ==
  [base |-> BaseScoreboard(conv, u, fb), final |-> FinalScoreboard(conv, u, fb)]

----------------------------------------------------------------------------
(* Inputs of mergeSignals explored by the model *)

CANONICAL_CATEGORIES ==
  << "AI Tools", "Productivity", "Wellness", "Education", "Crypto",
     "Lifestyle", "Design", "Development", "Marketing", "Finance" >>

BoundedSeqs(S, n) == UNION {[1..k -> S] : k \in 0..n}

NoUserMd ==
  [present |-> FALSE, role |-> {}, currentFocus |-> {}, techStack |-> {},
   interests |-> <<>>, workingStyle |-> "", absent |-> {}]

UserMd(role, currentFocus, techStack, interests, workingStyle) ==
  [present |-> TRUE, role |-> role, currentFocus |-> currentFocus,
   techStack |-> techStack, interests |-> interests, workingStyle |-> workingStyle,
   absent |-> {}]

\* the optional fields of UserMdSignals (user-md-parser lines 113-120)
UserMdFields == {"role", "currentFocus", "techStack", "interests", "workingStyle"}

CW(cat, weight) == [cat |-> cat, weight |-> weight]

NoFeedback ==
  [present |-> FALSE, categoryWeights |-> <<>>, excludeSkillIds |-> {}, eventCount |-> 0,
   absent |-> {}]

Feedback(categoryWeights, excludeSkillIds, eventCount) ==
  [present |-> TRUE, categoryWeights |-> categoryWeights,
   excludeSkillIds |-> excludeSkillIds, eventCount |-> eventCount, absent |-> {}]

\* the optional fields of FeedbackData (lines 458-462)
FeedbackFields == {"categoryWeights", "excludeSkillIds"}

CategoryEventCounts == {0, 7, MaxEventCount}

NotMerged ==
  [returned |-> FALSE, mainCategories |-> <<>>, subCategories |-> <<>>,
   dimensionNudges |-> [conviction |-> 0, intuition |-> 0, contribution |-> 0],
   excludedSkillIds |-> {}, categoryWeights |-> <<>>, threw |-> FALSE]

NoWeights ==
  [computed |-> FALSE, feedbackWeight |-> 0, userMdWeight |-> 0, convWeight |-> 0]

NoCategoryScores == [base |-> EmptyMap, final |-> EmptyMap]

----------------------------------------------------------------------------
(* The merger as a state machine: one call of mergeSignals per behaviour *)

IdleOptions == [skipTwitter |-> TRUE, includeWallet |-> FALSE]

IdleSession ==
  [outcome |-> "throw", messageCount |-> 0, topics |-> <<>>, interests |-> <<>>,
   preferences |-> <<>>, history |-> <<>>]

IdleTwitterApi == [outcome |-> "importFail", bio |-> "", tweets |-> <<>>, following |-> <<>>]

IdleWalletStore == [outcome |-> "importFail", address |-> ""]

NoMemory ==
  [present |-> FALSE, topics |-> <<>>, interests |-> <<>>, preferences |-> <<>>,
   history |-> <<>>, messageCount |-> 0]

NoTwitter == [present |-> FALSE, bio |-> "", tweets |-> <<>>, following |-> <<>>]

NoWallet == [present |-> FALSE, address |-> ""]

\* the UserData literal of lines 106-116
NewUserData ==
  [sources            |-> <<>>,
   permissions        |-> [twitter |-> FALSE, conversation |-> FALSE],
   dataQuality        |-> [twitter |-> "none", conversation |-> "none"],
   conversationMemory |-> NoMemory,
   twitter            |-> NoTwitter,
   wallet             |-> NoWallet]

\* hasSufficientData has not been called
NotAsked == [called |-> FALSE, result |-> FALSE]

\* no collect call in progress
CollectIdle ==
  /\ options = IdleOptions
  /\ session = IdleSession
  /\ twitterApi = IdleTwitterApi
  /\ walletStore = IdleWalletStore
  /\ pc = "idle"
  /\ userData = NewUserData
  /\ qualityScore = -1
  /\ fetchLog = <<>>
  /\ sufficient = NotAsked

\* no mergeSignals call in progress
MergeIdle ==
  /\ conversationCategories = <<>>
  /\ userMd = NoUserMd
  /\ feedback = NoFeedback
  /\ weights = NoWeights
  /\ merged = NotMerged
  /\ categoryScores = NoCategoryScores

\* no classification in progress
ClassifyIdle ==
  LET NoDimensions ==
        [conviction |-> 0, intuition |-> 0, contribution |-> 0]
  IN  /\ dimensions = NoDimensions
      /\ identityType = ""

NoRanking == [done |-> FALSE, scores |-> <<>>, list |-> <<>>]

\* no scoring in progress
RankIdle ==
  /\ candidates = <<>>
  /\ ranked = NoRanking

NoHubResult == [returned |-> FALSE, skills |-> <<>>, subSearched |-> FALSE]

\* no ClawHub client call in progress
HubIdle ==
  LET NoRequest ==
        [op |-> "none", categories |-> <<>>, subCategories |-> <<>>, limit |-> 0]
  IN  /\ catalog = <<>>
      /\ request = NoRequest
      /\ hubResult = NoHubResult

NoFile == [exists |-> FALSE, content |-> <<>>]

NoSync ==
  [pc |-> "idle", calls |-> 0, outcome |-> "none", discoveries |-> <<>>,
   synced |-> <<>>, newEntries |-> <<>>, allIds |-> <<>>,
   result |-> [newCount |-> 0, totalSynced |-> 0]]

\* no syncDiscoveries call in progress, nothing on disk
SyncIdle ==
  /\ mdFile = NoFile
  /\ stateFile = NoFile
  /\ sync = NoSync

\* no saveUserWallet call in progress, nothing on disk
WalletIdle ==
  /\ walletFile = NoFile
  /\ savers = <<>>

\* nothing is being encrypted
CryptoIdle ==
  LET NoCryptoInput ==
        [privateKey |-> <<>>, secret |-> <<>>]
  IN  /\ cryptoInput = NoCryptoInput
      /\ ciphertexts = <<>>
      /\ decrypted = <<>>

\* the file-backed components are idle
StorageIdle ==
  /\ SyncIdle
  /\ WalletIdle
  /\ CryptoIdle

InitMerge ==
  LET WeightFeedbacks ==
        {NoFeedback} \cup { Feedback(<<>>, {}, n) : n \in 0..MaxEventCount }
  IN  LET LongFeedbacks ==
            LET LongCategoryWeightInputs ==
                  { << CW("Gaming", 150), CW("Travel", 50), CW("Crypto", 150) >>,
                    << CW("Travel", 200), CW("Gaming", 110), CW("Music", 130), CW("Dance", 120) >> }
            IN  {NoFeedback} \cup
                { Feedback(cw, {}, n) : cw \in LongCategoryWeightInputs, n \in CategoryEventCounts }
      IN  LET \* conversation lists long enough for the position bonus to reach 0 (11th
              \* entry) and to go negative (12th entry)
              LongConvInputs ==
                { CANONICAL_CATEGORIES \o <<"Gaming", "Travel">>,
                  <<"Crypto", "Gaming">> }
          IN  LET CategoryFeedbacks ==
                    LET \* feedback.categoryWeights in Object.entries order; multipliers in hundredths
                        CategoryWeightInputs ==
                          { <<>>,
                            << CW("Crypto", 150), CW("Finance", 130) >>,
                            << CW("AI Tools", 50), CW("Lifestyle", 120), CW("Design", 0) >>,
                            << CW("Marketing", 200), CW("Wellness", 121) >> }
                    IN  {NoFeedback} \cup
                        { Feedback(cw, ex, n) : cw \in CategoryWeightInputs, ex \in {{}, {"x"}},
                                                n \in CategoryEventCounts }
              IN  LET EdgeFeedbacks ==
                        LET \* a feedback value whose fields named in absent are undefined
                            PartialFeedback(fb, absent) ==
                              [present         |-> TRUE,
                               categoryWeights |-> IF "categoryWeights" \in absent THEN <<>> ELSE fb.categoryWeights,
                               excludeSkillIds |-> IF "excludeSkillIds" \in absent THEN {} ELSE fb.excludeSkillIds,
                               eventCount      |-> fb.eventCount,
                               absent          |-> absent]
                        IN  {NoFeedback} \cup
                            { PartialFeedback(Feedback(<< CW("Crypto", 150), CW("Finance", 130) >>, {"x"}, 7), a) :
                                a \in SUBSET FeedbackFields }
                  IN  LET \* inputs at the edges of the input space: null and partly or wholly
                          \* undefined optional sources
                          EdgeUserMds ==
                            LET \* a static profile whose fields named in absent are undefined
                                PartialUserMd(u, absent) ==
                                  [present      |-> TRUE,
                                   role         |-> IF "role" \in absent THEN {} ELSE u.role,
                                   currentFocus |-> IF "currentFocus" \in absent THEN {} ELSE u.currentFocus,
                                   techStack    |-> IF "techStack" \in absent THEN {} ELSE u.techStack,
                                   interests    |-> IF "interests" \in absent THEN <<>> ELSE u.interests,
                                   workingStyle |-> IF "workingStyle" \in absent THEN "" ELSE u.workingStyle,
                                   absent       |-> absent]
                            IN  {NoUserMd} \cup
                                { PartialUserMd(UserMd({"founder"}, {"defi"}, {"figma"}, <<"chess">>, "deep-focus"), a) :
                                    a \in SUBSET UserMdFields }
                      IN  LET \* static profiles used with the full range of event counts
                              NudgeUserMds ==
                                LET WorkingStyles ==
                                      {"", "deep-focus", "explorer", "multitasker", "methodical"}
                                IN  LET RoleTokens ==
                                          {"research", "bd", "founder", "engineer"}
                                    IN  {NoUserMd} \cup
                                        { UserMd(role, {}, {}, <<>>, ws) : role \in SUBSET RoleTokens, ws \in WorkingStyles }
                          IN  LET \* static profiles used with the full range of conversation lists
                                  CategoryUserMds ==
                                    { NoUserMd,
                                      UserMd({}, {}, {}, <<"Crypto", "music production">>, ""),
                                      UserMd({"bd"}, {"defi", "ai"}, {"typescript"}, <<"generative art", "Design">>, "explorer"),
                                      UserMd({"founder", "research"}, {}, {"solidity", "figma"},
                                             <<"music production", "generative art", "chess", "cycling", "chess">>,
                                             "deep-focus") }
                              IN  LET \* every short list over ConvCats (duplicates included) and one list that
                                      \* names all ten canonical categories
                                      ConvInputs ==
                                        LET ConvCats ==
                                              {"AI Tools", "Crypto", "Design", "Wellness"}
                                        IN  BoundedSeqs(ConvCats, MaxConvLen) \cup {CANONICAL_CATEGORIES}
                                  IN  /\ StorageIdle
                                      /\ CollectIdle
                                      /\ ClassifyIdle
                                      /\ RankIdle
                                      /\ HubIdle
                                      /\ \/ /\ conversationCategories \in ConvInputs
                                            /\ userMd \in CategoryUserMds
                                            /\ feedback \in CategoryFeedbacks
                                         \/ /\ conversationCategories \in {<<>>, <<"AI Tools", "Crypto">>}
                                            /\ userMd \in NudgeUserMds
                                            /\ feedback \in WeightFeedbacks
                                         \/ /\ conversationCategories \in {<<>>, <<"Crypto">>}
                                            /\ userMd \in EdgeUserMds
                                            /\ feedback \in EdgeFeedbacks
                                         \/ /\ conversationCategories \in LongConvInputs
                                            /\ userMd \in {NoUserMd, UserMd({"bd"}, {"defi"}, {}, <<"chess">>, "")}
                                            /\ feedback \in LongFeedbacks
                                      /\ weights = NoWeights
                                      /\ merged = NotMerged
                                      /\ categoryScores = NoCategoryScores

MergeSignals ==
  LET \* the call ended with an exception instead of a return value
      Threw ==
        [NotMerged EXCEPT !.threw = TRUE]
  IN  /\ ~merged.returned
      /\ ~merged.threw
      /\ merged' = IF mergeSignalsThrows(conversationCategories, userMd, feedback)
                     THEN Threw
                     ELSE mergeSignals(conversationCategories, userMd, feedback)
      /\ weights' = mergeWeights(userMd, feedback)
      /\ categoryScores' = mergeScoreboard(conversationCategories, userMd, feedback)
      /\ UNCHANGED <<conversationCategories, userMd, feedback>>
      /\ UNCHANGED <<collectVars, classifyVars, rankVars, hubVars, syncVars, walletVars, cryptoVars>>

NextMerge == MergeSignals

SpecMerge == InitMerge /\ [][NextMerge]_vars

----------------------------------------------------------------------------
(* EnhancedDataCollector.collect, lines 97-177, as a state machine.  Every *)
(* await is a point where the call is suspended: a fetch is started by one *)
(* action and its settled result is consumed by the next.                  *)

MaxMessageCount == 4

MaxItems == 5

\* a list of n items whose content the collector never looks at
Items(n) == [i \in 1..n |-> i]

\* collectConversationMemory, lines 327-364: the read failing and the
\* messageCount < 3 error are both caught by its own catch block, which
\* returns an empty memory; the function never rejects
collectConversationMemory(s) ==
  IF s.outcome = "ok" /\ ~(s.messageCount < 3)
    THEN [rejected |-> FALSE,
          value |-> [present |-> TRUE, topics |-> s.topics, interests |-> s.interests,
                     preferences |-> s.preferences, history |-> s.history,
                     messageCount |-> s.messageCount]]
    ELSE [rejected |-> FALSE,
          value |-> [present |-> TRUE, topics |-> <<>>, interests |-> <<>>,
                     preferences |-> <<>>, history |-> <<>>, messageCount |-> 0]]

\* collectTwitterData, lines 199-248: the dynamic import is outside the try
collectTwitterData(t) ==
  IF t.outcome = "importFail" THEN [rejected |-> TRUE, value |-> NoTwitter]
  ELSE IF t.outcome = "ok"
    THEN [rejected |-> FALSE,
          value |-> [present |-> TRUE, bio |-> t.bio, tweets |-> t.tweets,
                     following |-> t.following]]
    ELSE [rejected |-> FALSE,
          value |-> [present |-> TRUE, bio |-> "", tweets |-> <<>>, following |-> <<>>]]

\* collectWalletData, lines 265-317: the dynamic import is outside the try
collectWalletData(w) ==
  IF w.outcome = "importFail" THEN [rejected |-> TRUE, value |-> NoWallet]
  ELSE IF w.outcome = "ok"
    THEN [rejected |-> FALSE, value |-> [present |-> TRUE, address |-> w.address]]
    ELSE [rejected |-> FALSE, value |-> [present |-> TRUE, address |-> ""]]

\* where collect continues after the conversation block / the Twitter block
AfterTwitter == IF options.includeWallet THEN "wallet" ELSE "return"

\* an entry of the fetch log: a fetch was started, or its promise settled
FetchEvent(event, source) == [event |-> event, source |-> source]

InitCollect ==
  LET OptionInputs ==
        [skipTwitter : BOOLEAN, includeWallet : BOOLEAN]
  IN  LET \* answers of WalletStorage.getUserWallet
          WalletInputs ==
            { [outcome |-> o, address |-> ""] : o \in {"importFail", "storageFail", "noRecord"} } \cup
            { [outcome |-> "ok", address |-> "0xabc"] }
      IN  LET \* answers of the bird-twitter integration: the import fails, a fetch
              \* rejects, no profile is found, or a profile is returned
              TwitterInputs ==
                { [outcome |-> o, bio |-> "", tweets |-> <<>>, following |-> <<>>] :
                    o \in {"importFail", "fetchFail", "noProfile"} } \cup
                { [outcome |-> "ok", bio |-> b, tweets |-> Items(t), following |-> Items(f)] :
                    b \in {"", "builder"}, t \in {0, 10}, f \in {0, 20} }
          IN  LET \* answers of sessionReader.readSessionHistory; "throw" is a rejected read
                  SessionInputs ==
                    {IdleSession} \cup
                    { [outcome |-> "ok", messageCount |-> n, topics |-> Items(t), interests |-> Items(t),
                       preferences |-> <<>>, history |-> Items(h)] :
                        n \in 0..MaxMessageCount, t \in {0, 3}, h \in {0, MaxItems} }
              IN  /\ StorageIdle
                  /\ MergeIdle
                  /\ ClassifyIdle
                  /\ RankIdle
                  /\ HubIdle
                  /\ options \in OptionInputs
                  /\ session \in SessionInputs
                  /\ twitterApi \in TwitterInputs
                  /\ walletStore \in WalletInputs
                  /\ pc = "conversation"
                  /\ userData = NewUserData
                  /\ qualityScore = -1
                  /\ fetchLog = <<>>
                  /\ sufficient = NotAsked

\* variant: the Twitter fetch is started together with the conversation fetch
StartConversation_AlsoStartsTwitter ==
  /\ pc = "conversation"
  /\ pc' = "conversation_pending"
  /\ UNCHANGED <<options, session, twitterApi, walletStore, userData, qualityScore, sufficient>>
  /\ fetchLog' = fetchLog \o << FetchEvent("start", "Conversation"),
                                FetchEvent("start", "Twitter") >>
  /\ UNCHANGED <<mergeVars, classifyVars, rankVars, hubVars, syncVars, walletVars, cryptoVars>>

\* line 120, up to the await
StartConversation ==
  /\ pc = "conversation"
  /\ pc' = "conversation_pending"
  /\ UNCHANGED <<options, session, twitterApi, walletStore, userData, qualityScore, sufficient>>
  /\ fetchLog' = Append(fetchLog, FetchEvent("start", "Conversation"))
  /\ UNCHANGED <<mergeVars, classifyVars, rankVars, hubVars, syncVars, walletVars, cryptoVars>>

\* lines 119-128, from the await on
SettleConversation ==
  LET AfterConversation ==
        IF ~options.skipTwitter THEN "twitter" ELSE AfterTwitter
  IN  /\ pc = "conversation_pending"
      /\ LET r == collectConversationMemory(session)
         IN  userData' =
               IF r.rejected
                 THEN [userData EXCEPT !.dataQuality.conversation = "none"]
                 ELSE [userData EXCEPT !.conversationMemory = r.value,
                                       !.sources = Append(@, "Conversation"),
                                       !.permissions.conversation = TRUE,
                                       !.dataQuality.conversation = "real"]
      /\ pc' = AfterConversation
      /\ UNCHANGED <<options, session, twitterApi, walletStore, qualityScore, sufficient>>
      /\ fetchLog' = Append(fetchLog, FetchEvent("settle", "Conversation"))
      /\ UNCHANGED <<mergeVars, classifyVars, rankVars, hubVars, syncVars, walletVars, cryptoVars>>

\* lines 131-137, up to the await of collectTwitterData
StartTwitter ==
  LET \* checkTwitterPermission, lines 185-194
      checkTwitterPermission ==
        TRUE
  IN  /\ pc = "twitter"
      /\ userData' = [userData EXCEPT !.permissions.twitter = checkTwitterPermission]
      /\ pc' = IF checkTwitterPermission THEN "twitter_pending" ELSE AfterTwitter
      /\ UNCHANGED <<options, session, twitterApi, walletStore, qualityScore, sufficient>>
      /\ fetchLog' = Append(fetchLog, FetchEvent("start", "Twitter"))
      /\ UNCHANGED <<mergeVars, classifyVars, rankVars, hubVars, syncVars, walletVars, cryptoVars>>

\* lines 137-155, from the await on
SettleTwitter ==
  /\ pc = "twitter_pending"
  /\ LET r == collectTwitterData(twitterApi)
     IN  userData' =
           IF r.rejected
             THEN [userData EXCEPT !.dataQuality.twitter = "none"]
           ELSE IF r.value.bio # "" \/ Len(r.value.tweets) > 0
             THEN [userData EXCEPT !.twitter = r.value,
                                   !.sources = Append(@, "Twitter"),
                                   !.dataQuality.twitter = "real"]
             ELSE [userData EXCEPT !.twitter = r.value,
                                   !.dataQuality.twitter = "none"]
  /\ pc' = AfterTwitter
  /\ UNCHANGED <<options, session, twitterApi, walletStore, qualityScore, sufficient>>
  /\ fetchLog' = Append(fetchLog, FetchEvent("settle", "Twitter"))
  /\ UNCHANGED <<mergeVars, classifyVars, rankVars, hubVars, syncVars, walletVars, cryptoVars>>

\* lines 160-163, up to the await
StartWallet ==
  /\ pc = "wallet"
  /\ pc' = "wallet_pending"
  /\ UNCHANGED <<options, session, twitterApi, walletStore, userData, qualityScore, sufficient>>
  /\ fetchLog' = Append(fetchLog, FetchEvent("start", "Wallet"))
  /\ UNCHANGED <<mergeVars, classifyVars, rankVars, hubVars, syncVars, walletVars, cryptoVars>>

\* lines 163-168, from the await on
SettleWallet ==
  /\ pc = "wallet_pending"
  /\ LET r == collectWalletData(walletStore)
     IN  userData' =
           IF r.rejected
             THEN userData
             ELSE [userData EXCEPT !.wallet = r.value,
                                   !.sources = Append(@, "Wallet")]
  /\ pc' = "return"
  /\ UNCHANGED <<options, session, twitterApi, walletStore, qualityScore, sufficient>>
  /\ fetchLog' = Append(fetchLog, FetchEvent("settle", "Wallet"))
  /\ UNCHANGED <<mergeVars, classifyVars, rankVars, hubVars, syncVars, walletVars, cryptoVars>>

\* lines 171-176
ReturnUserData ==
  /\ pc = "return"
  /\ pc' = "done"
  /\ UNCHANGED <<options, session, twitterApi, walletStore, userData, qualityScore, sufficient>>
  /\ UNCHANGED fetchLog
  /\ UNCHANGED <<mergeVars, classifyVars, rankVars, hubVars, syncVars, walletVars, cryptoVars>>

----------------------------------------------------------------------------
(* getDataQualityScore, lines 396-419 *)

\* variant: the data-quality test of line 410 is missing
TwitterScore_IgnoresQuality(twitter, quality) ==
  IF twitter.present
    THEN 10 + (IF Len(twitter.tweets) >= 10 THEN 3 ELSE 0)
            + (IF Len(twitter.following) >= 20 THEN 2 ELSE 0)
    ELSE 0

TwitterScore(twitter, quality) ==
  IF twitter.present /\ quality = "real"
    THEN 10 + (IF Len(twitter.tweets) >= 10 THEN 3 ELSE 0)
            + (IF Len(twitter.following) >= 20 THEN 2 ELSE 0)
    ELSE 0

getDataQualityScore(ud) ==
  LET ConversationScore(memory) ==
        IF memory.present
          THEN 70 + (IF Len(memory.topics) >= 3 THEN 5 ELSE 0)
                  + (IF Len(memory.interests) >= 3 THEN 5 ELSE 0)
                  + (IF Len(memory.history) >= 5 THEN 5 ELSE 0)
          ELSE 0
  IN  Min(ConversationScore(ud.conversationMemory)
            + TwitterScore(ud.twitter, ud.dataQuality.twitter),
          100)

\* a caller asks for the score of the UserData it holds
GetDataQualityScore ==
  /\ pc = "done"
  /\ qualityScore = -1
  /\ qualityScore' = getDataQualityScore(userData)
  /\ UNCHANGED <<options, session, twitterApi, walletStore, pc, userData>>
  /\ UNCHANGED <<fetchLog, sufficient>>
  /\ UNCHANGED <<mergeVars, classifyVars, rankVars, hubVars, syncVars, walletVars, cryptoVars>>

\* variant: any conversation memory counts as sufficient
hasSufficientData_AnyMemory(data) == data.conversationMemory.present

\* hasSufficientData, lines 374-385
hasSufficientData(data) ==
  IF ~data.conversationMemory.present THEN FALSE
  ELSE IF data.conversationMemory.messageCount < 3 THEN FALSE
  ELSE TRUE

\* a caller asks whether the UserData it holds is sufficient
HasSufficientData ==
  /\ pc = "done"
  /\ ~sufficient.called
  /\ sufficient' = [called |-> TRUE, result |-> hasSufficientData(userData)]
  /\ UNCHANGED <<options, session, twitterApi, walletStore, pc, userData>>
  /\ UNCHANGED <<fetchLog, qualityScore>>
  /\ UNCHANGED <<mergeVars, classifyVars, rankVars, hubVars, syncVars, walletVars, cryptoVars>>

NextCollect ==
  \/ StartConversation
  \/ SettleConversation
  \/ StartTwitter
  \/ SettleTwitter
  \/ StartWallet
  \/ SettleWallet
  \/ ReturnUserData
  \/ GetDataQualityScore
  \/ HasSufficientData

SpecCollect == InitCollect /\ [][NextCollect]_vars

----------------------------------------------------------------------------
(* getDataQualityScore over every shape of UserData, whether or not a      *)
(* collect call can produce it                                             *)

InitQuality ==
  LET UserDataInputs ==
        LET TwitterDataInputs ==
              {NoTwitter} \cup
              { [present |-> TRUE, bio |-> b, tweets |-> Items(t), following |-> Items(f)] :
                  b \in {"", "builder"}, t \in {0, 9, 10, 11}, f \in {0, 19, 20, 21} }
        IN  LET MemoryInputs ==
                  {NoMemory} \cup
                  { [present |-> TRUE, topics |-> Items(t), interests |-> Items(i), preferences |-> <<>>,
                     history |-> Items(h), messageCount |-> n] :
                      t \in 0..MaxItems, i \in 0..MaxItems, h \in 0..MaxItems, n \in {0, 3} }
            IN  { [sources            |-> <<>>,
                   permissions        |-> [twitter |-> q = "real", conversation |-> m.present],
                   dataQuality        |-> [twitter |-> q,
                                           conversation |-> IF m.present THEN "real" ELSE "none"],
                   conversationMemory |-> m,
                   twitter            |-> t,
                   wallet             |-> NoWallet] :
                    m \in MemoryInputs, t \in TwitterDataInputs, q \in {"real", "none"} }
  IN  /\ StorageIdle
      /\ MergeIdle
      /\ ClassifyIdle
      /\ RankIdle
      /\ HubIdle
      /\ fetchLog = <<>>
      /\ options = IdleOptions
      /\ session = IdleSession
      /\ twitterApi = IdleTwitterApi
      /\ walletStore = IdleWalletStore
      /\ pc = "done"
      /\ userData \in UserDataInputs
      /\ qualityScore = -1
      /\ sufficient = NotAsked

NextQuality == GetDataQualityScore

SpecQuality == InitQuality /\ [][NextQuality]_vars

----------------------------------------------------------------------------
(* Personality classification (2x2 + override), the decision tree of       *)
(* docs/CONVERSATION-ANALYSIS.md lines 403-425 with the type table of      *)
(* lines 105-110.  The analyzer that implements it is not among the        *)
(* sources; the documented tree is what is modelled.                       *)

IdentityTypes ==
  {"The Visionary", "The Explorer", "The Optimizer", "The Innovator", "The Cultivator"}

\* variant: a dimension of exactly 50 counts as low
classify_StrictFifty(conviction, intuition, contribution) ==
  IF contribution > 65 THEN "The Cultivator"
  ELSE IF conviction > 50
    THEN IF intuition > 50 THEN "The Visionary" ELSE "The Optimizer"
    ELSE IF intuition > 50 THEN "The Explorer" ELSE "The Innovator"

\* variant: the override is tested after the quadrant and only replaces
\* The Innovator
classify_OverrideLast(conviction, intuition, contribution) ==
  IF conviction >= 50
    THEN IF intuition >= 50 THEN "The Visionary" ELSE "The Optimizer"
    ELSE IF intuition >= 50 THEN "The Explorer"
    ELSE IF contribution > 65 THEN "The Cultivator" ELSE "The Innovator"

classify(conviction, intuition, contribution) ==
  IF contribution > 65 THEN "The Cultivator"
  ELSE IF conviction >= 50
    THEN IF intuition >= 50 THEN "The Visionary" ELSE "The Optimizer"
    ELSE IF intuition >= 50 THEN "The Explorer" ELSE "The Innovator"

InitClassify ==
  LET DimensionInputs ==
        LET \* dimension values around every threshold of the tree, within [0, 100]
            DimensionValues ==
              {0, 20, 49, 50, 51, 64, 65, 66, 69, 70, 75, 90, 100}
        IN  [conviction : DimensionValues, intuition : DimensionValues, contribution : DimensionValues]
  IN  /\ StorageIdle
      /\ MergeIdle
      /\ CollectIdle
      /\ RankIdle
      /\ HubIdle
      /\ dimensions \in DimensionInputs
      /\ identityType = ""

Classify ==
  /\ identityType = ""
  /\ identityType' = classify(dimensions.conviction, dimensions.intuition,
                              dimensions.contribution)
  /\ UNCHANGED dimensions
  /\ UNCHANGED <<mergeVars, collectVars, rankVars, hubVars, syncVars, walletVars, cryptoVars>>

NextClassify == Classify

SpecClassify == InitClassify /\ [][NextClassify]_vars

----------------------------------------------------------------------------
(* Recommendation scoring, docs/CONVERSATION-ANALYSIS.md lines 153-156 and *)
(* the flowchart of lines 362-401.  A candidate is described by what the   *)
(* flowchart asks of it: whether one of its categories matches, and how    *)
(* many personality and conversation keywords it matches.                  *)

MaxCandidates == 2

\* variant: the contribution bonus uses the threshold of the other two
DimensionBonus_ContributionSeventy(dims) ==
    (IF dims.conviction >= 70 THEN 5 ELSE 0)
  + (IF dims.intuition >= 70 THEN 5 ELSE 0)
  + (IF dims.contribution >= 70 THEN 5 ELSE 0)

\* I, K, M: +5 points each for conviction >= 70, intuition >= 70,
\* contribution >= 65
DimensionBonus(dims) ==
    (IF dims.conviction >= 70 THEN 5 ELSE 0)
  + (IF dims.intuition >= 70 THEN 5 ELSE 0)
  + (IF dims.contribution >= 65 THEN 5 ELSE 0)

\* O[Total Score]; without a category match the total is at most 65 (node D)
TotalScore(candidate, dims) ==
  LET \* G{Conversation Align?}: 3 keywords are worth +15 points
      ConversationPoints ==
        5 * Min(candidate.conversationKeywords, 3)
  IN  LET \* E{Personality Match?}: 5 keywords are worth +20 points
          PersonalityPoints ==
            4 * Min(candidate.personalityKeywords, 5)
      IN  LET \* B{Category Match?}: +30 points
              CategoryPoints ==
                IF candidate.categoryMatch THEN 30 ELSE 0
          IN  LET others == PersonalityPoints + ConversationPoints
                            + DimensionBonus(dims)
              IN  IF candidate.categoryMatch THEN CategoryPoints + others
                  ELSE Min(65, others)

\* variant: a score of exactly 60 is filtered out
IsRecommended_Strict(score) == score > 60

\* P{Score >= 60?}
IsRecommended(score) == score >= 60

\* the candidates that pass P, in their order: Q[Recommended]; the others
\* are R[Filtered Out]
RECURSIVE KeepRecommended(_, _)
KeepRecommended(cands, dims) ==
  IF cands = <<>> THEN <<>>
  ELSE LET score == TotalScore(Head(cands), dims)
       IN  (IF IsRecommended(score)
              THEN << [id |-> Head(cands).id, score |-> score, recommended |-> TRUE] >>
              ELSE <<>>)
           \o KeepRecommended(Tail(cands), dims)

\* "Return top recommendations" (line 526): best score first
rankCandidates(cands, dims) ==
  LET kept == KeepRecommended(cands, dims)
  IN  SortByScoreDesc(kept, [i \in DOMAIN kept |-> kept[i].score])

InitRank ==
  LET RankDimensionInputs ==
        [conviction : {69, 70}, intuition : {69, 70}, contribution : {64, 65}]
  IN  LET CandidateInputs ==
            LET CandidateShapes ==
                  [categoryMatch : BOOLEAN, personalityKeywords : {0, 5, 6},
                   conversationKeywords : {0, 2, 3, 4}]
            IN  LET CandidateIds ==
                      <<"a", "b", "c">>
                IN  UNION { { [i \in 1..n |->
                                 [id |-> CandidateIds[i], categoryMatch |-> sh[i].categoryMatch,
                                  personalityKeywords |-> sh[i].personalityKeywords,
                                  conversationKeywords |-> sh[i].conversationKeywords]] :
                              sh \in [1..n -> CandidateShapes] } : n \in 1..Min(MaxCandidates, 3) }
      IN  /\ StorageIdle
          /\ MergeIdle
          /\ CollectIdle
          /\ HubIdle
          /\ identityType = ""
          /\ dimensions \in RankDimensionInputs
          /\ candidates \in CandidateInputs
          /\ ranked = NoRanking

RankCandidates ==
  /\ ~ranked.done
  /\ ranked' = [done   |-> TRUE,
                scores |-> [i \in DOMAIN candidates |->
                              TotalScore(candidates[i], dimensions)],
                list   |-> rankCandidates(candidates, dimensions)]
  /\ UNCHANGED <<candidates, dimensions, identityType>>
  /\ UNCHANGED <<mergeVars, collectVars, hubVars, syncVars, walletVars, cryptoVars>>

NextRank == RankCandidates

SpecRank == InitRank /\ [][NextRank]_vars

----------------------------------------------------------------------------
(* ClawHubClient, src/clawhub client lines 49-276.  The search API is the  *)
(* environment: catalog lists, per query, whether the request succeeds and *)
(* which hits it returns (the API is taken to honour the limit parameter). *)

MaxLimit == 3

\* searchSkills, lines 55-80: a failed request is caught and yields []
searchSkills(cat, query, limit) ==
  LET \* the catalog entry of a query; a query the catalog does not list fails
      CatalogEntry ==
        IF \E i \in DOMAIN cat : cat[i].query = query
          THEN cat[CHOOSE i \in DOMAIN cat :
                     /\ cat[i].query = query
                     /\ \A j \in 1..(i - 1) : cat[j].query # query]
          ELSE [query |-> query, ok |-> FALSE, results |-> <<>>]
  IN  LET entry == CatalogEntry
      IN  IF entry.ok THEN Slice(entry.results, 0, limit) ELSE <<>>

\* resultsArrays of line 96, flattened in category order
RECURSIVE FlattenSearches(_, _, _)
FlattenSearches(cat, categories, limitPerCategory) ==
  IF categories = <<>> THEN <<>>
  ELSE searchSkills(cat, Head(categories), limitPerCategory)
       \o FlattenSearches(cat, Tail(categories), limitPerCategory)

\* variant: a later hit of a slug replaces the kept one
RECURSIVE DedupeBySlug_KeepLast(_, _)
DedupeBySlug_KeepLast(allResults, hits) ==
  IF hits = <<>> THEN allResults
  ELSE DedupeBySlug_KeepLast(
         IF \E i \in DOMAIN allResults : allResults[i].slug = Head(hits).slug
           THEN [i \in DOMAIN allResults |->
                   IF allResults[i].slug = Head(hits).slug THEN Head(hits)
                   ELSE allResults[i]]
           ELSE Append(allResults, Head(hits)),
         Tail(hits))

\* lines 99-109: keep the first hit of every slug
RECURSIVE DedupeBySlug(_, _)
DedupeBySlug(allResults, hits) ==
  IF hits = <<>> THEN allResults
  ELSE DedupeBySlug(
         IF \E i \in DOMAIN allResults : allResults[i].slug = Head(hits).slug
           THEN allResults
           ELSE Append(allResults, Head(hits)),
         Tail(hits))

\* sort((a, b) => b.similarityScore - a.similarityScore), lines 112 and 273
SortBySimilarity(skills) ==
  SortByScoreDesc(skills, [i \in DOMAIN skills |-> skills[i].similarityScore])

\* searchMultipleCategories, lines 85-113
searchMultipleCategories(cat, categories, limitPerCategory) ==
  SortBySimilarity(DedupeBySlug(<<>>, FlattenSearches(cat, categories, limitPerCategory)))

\* variant: the sub-categories are searched whenever there are any
NeedsSubSearch_Always(mainResults, subCategories, limit) ==
  Len(subCategories) > 0

\* line 261: are the sub-categories searched as well
NeedsSubSearch(mainResults, subCategories, limit) ==
  Len(mainResults) < limit /\ Len(subCategories) > 0

\* getRecommendations, lines 247-275
getRecommendations(cat, mainCategories, subCategories, limit) ==
  LET mainResults == searchMultipleCategories(cat, mainCategories, 4)
      subSearched == NeedsSubSearch(mainResults, subCategories, limit)
      subResults  == searchMultipleCategories(cat, Slice(subCategories, 0, 3), 2)
      allResults  == IF subSearched THEN DedupeBySlug(mainResults, subResults)
                     ELSE mainResults
  IN  [returned    |-> TRUE,
       skills      |-> Slice(SortBySimilarity(allResults), 0, limit),
       subSearched |-> subSearched]

HubQueries == <<"AI Tools", "Crypto", "music production">>

InitHub ==
  LET HubFeedbacks ==
        { NoFeedback, Feedback(<<>>, {}, 0), Feedback(<<>>, {"x"}, 3),
          Feedback(<<>>, {"y", "z"}, 3) }
  IN  LET \* profiles whose merged categories drive getRecommendations
          HubUserMds ==
            { NoUserMd, UserMd({}, {}, {}, <<"Crypto", "music production">>, "") }
      IN  LET RecommendRequest(limit) ==
                [op |-> "getRecommendations", categories |-> <<>>, subCategories |-> <<>>,
                 limit |-> limit]
          IN  LET SearchRequest(categories, limit) ==
                    [op |-> "searchMultipleCategories", categories |-> categories,
                     subCategories |-> <<>>, limit |-> limit]
              IN  LET Skill(slug, similarityScore, name) ==
                        [slug |-> slug, similarityScore |-> similarityScore, name |-> name]
                  IN  LET CatalogInputs ==
                            LET \* the answer to one query: the request fails, or one of the hit lists comes back
                                Answers ==
                                  LET \* hits the API can return for one query
                                      HitLists ==
                                        { <<>>,
                                          << Skill("x", 90, "X") >>,
                                          << Skill("y", 50, "Y"), Skill("x", 10, "X") >>,
                                          << Skill("x", 95, "X (renamed)"), Skill("z", 50, "Z"), Skill("w", 50, "W") >> }
                                  IN  {[ok |-> FALSE, results |-> <<>>]} \cup {[ok |-> TRUE, results |-> h] : h \in HitLists}
                            IN  { [i \in DOMAIN HubQueries |->
                                     [query |-> HubQueries[i], ok |-> a[i].ok, results |-> a[i].results]] :
                                    a \in [DOMAIN HubQueries -> Answers] }
                      IN  /\ StorageIdle
                          /\ CollectIdle
                          /\ ClassifyIdle
                          /\ RankIdle
                          /\ catalog \in CatalogInputs
                          /\ hubResult = NoHubResult
                          /\ weights = NoWeights
                          /\ merged = NotMerged
                          /\ categoryScores = NoCategoryScores
                          /\ \/ /\ request \in { SearchRequest(c, l) :
                                                   c \in BoundedSeqs(Range(HubQueries), 2), l \in 1..MaxLimit }
                                /\ conversationCategories = <<>>
                                /\ userMd = NoUserMd
                                /\ feedback = NoFeedback
                             \/ /\ request \in { RecommendRequest(l) : l \in {1, MaxLimit, 10} }
                                /\ conversationCategories \in {<<>>, <<"AI Tools">>, <<"Crypto", "AI Tools">>}
                                /\ userMd \in HubUserMds
                                /\ feedback \in HubFeedbacks

\* a caller searches a list of categories
SearchMultipleCategories ==
  /\ request.op = "searchMultipleCategories"
  /\ ~hubResult.returned
  /\ hubResult' = [returned    |-> TRUE,
                   skills      |-> searchMultipleCategories(catalog, request.categories,
                                                            request.limit),
                   subSearched |-> FALSE]
  /\ UNCHANGED <<catalog, request>>
  /\ UNCHANGED <<mergeVars, collectVars, classifyVars, rankVars, syncVars, walletVars, cryptoVars>>

\* the signals of a user are merged before recommendations are asked for
MergeForRecommendations ==
  /\ request.op = "getRecommendations"
  /\ MergeSignals

\* recommendations are asked for with the categories of the merged profile,
\* the only profile fields getRecommendations accepts (lines 247-252)
GetRecommendations ==
  /\ request.op = "getRecommendations"
  /\ merged.returned
  /\ ~hubResult.returned
  /\ hubResult' = getRecommendations(catalog, merged.mainCategories,
                                     merged.subCategories, request.limit)
  /\ UNCHANGED <<catalog, request>>
  /\ UNCHANGED <<mergeVars, collectVars, classifyVars, rankVars, syncVars, walletVars, cryptoVars>>

NextHub ==
  \/ SearchMultipleCategories
  \/ MergeForRecommendations
  \/ GetRecommendations

SpecHub == InitHub /\ [][NextHub]_vars

----------------------------------------------------------------------------
(* syncDiscoveries, src/discovery-sync.ts lines 130-190, as a state machine *)
(* over the two files of the output directory.  A discovery is identified  *)
(* by its skillId, a positive number here; 0 stands for an entry without a *)
(* skillId.  The markdown file is the list of the skillIds of its entries, *)
(* top to bottom.  Calls follow each other; every await on the file system *)
(* either completes or rejects leaving the file as it was.                 *)

MAX_SYNCED_IDS == 500

MaxSyncCalls == 3

\* variant: the file is rewritten with the new section only
appendToMd_Overwrites(file, entries) ==
  [exists |-> TRUE, sentinel |-> TRUE, content |-> entries]

\* appendToMd, lines 88-118: a new file is header + section; otherwise the
\* section goes right after the sentinel line, or to the end of a file
\* whose header lost the sentinel
appendToMd(file, entries) ==
  IF ~file.exists
    THEN [exists |-> TRUE, sentinel |-> TRUE, content |-> entries]
  ELSE IF file.sentinel
    THEN [file EXCEPT !.content = entries \o file.content]
    ELSE [file EXCEPT !.content = file.content \o entries]

\* the distinct elements of list[lo..hi] in the order of their first
\* occurrence, which is the iteration order of a Set built from them
RECURSIVE InsertionOrder(_, _, _)
InsertionOrder(list, lo, hi) ==
  IF lo > hi THEN <<>>
  ELSE IF lo = hi THEN <<list[lo]>>
  ELSE LET mid   == (lo + hi) \div 2
           left  == InsertionOrder(list, lo, mid)
           right == InsertionOrder(list, mid + 1, hi)
           seen  == Range(left)
       IN  left \o SelectSeq(right, LAMBDA id : id \notin seen)

\* variant: the oldest ids are kept
Truncate_KeepsOldest(allIds) ==
  IF Len(allIds) > MAX_SYNCED_IDS THEN SubSeq(allIds, 1, MAX_SYNCED_IDS) ELSE allIds

\* line 184: allIds.slice(-MAX_SYNCED_IDS) when there are more than that
Truncate(allIds) ==
  IF Len(allIds) > MAX_SYNCED_IDS
    THEN SubSeq(allIds, Len(allIds) - MAX_SYNCED_IDS + 1, Len(allIds))
    ELSE allIds

InitSync ==
  LET \* the output directory before the first call: no markdown file, or one the
      \* user wrote by hand, without entries and without the sentinel line
      MdFileInputs ==
        LET NoMdFile ==
              [exists |-> FALSE, sentinel |-> TRUE, content |-> <<>>]
        IN  { NoMdFile, [exists |-> TRUE, sentinel |-> FALSE, content |-> <<>>] }
  IN  /\ MergeIdle
      /\ CollectIdle
      /\ ClassifyIdle
      /\ RankIdle
      /\ HubIdle
      /\ WalletIdle
      /\ CryptoIdle
      /\ mdFile \in MdFileInputs
      /\ stateFile = NoFile
      /\ sync = NoSync

Finished(outcome, result) ==
  [sync EXCEPT !.pc = "idle", !.outcome = outcome, !.result = result]

\* lines 143-161: the request; a non-OK answer throws, an empty list returns
Fetch ==
  LET \* answers of GET /x402/agent/{agentUserId}/discoveries
      ResponseInputs ==
        LET \* the ids from, from + 1, ..., to
            Block(from, to) ==
              [i \in 1..(to - from + 1) |-> from + i - 1]
        IN  { [ok |-> FALSE, discoveries |-> <<>>],
              [ok |-> TRUE, discoveries |-> <<>>],
              [ok |-> TRUE, discoveries |-> <<1, 2, 3>>],
              [ok |-> TRUE, discoveries |-> <<7, 7, 1>>],
              [ok |-> TRUE, discoveries |-> <<0, 5>>],
              [ok |-> TRUE, discoveries |-> Block(1, 300)],
              [ok |-> TRUE, discoveries |-> Block(201, 600)] }
  IN  /\ sync.pc = "idle"
      /\ sync.calls < MaxSyncCalls
      /\ \E response \in ResponseInputs :
           sync' = [pc          |-> IF response.ok /\ Len(response.discoveries) > 0
                                      THEN "load" ELSE "idle",
                    calls       |-> sync.calls + 1,
                    outcome     |-> IF ~response.ok THEN "apiError"
                                    ELSE IF Len(response.discoveries) = 0 THEN "returned"
                                    ELSE "running",
                    discoveries |-> response.discoveries,
                    synced      |-> <<>>,
                    newEntries  |-> <<>>,
                    allIds      |-> <<>>,
                    result      |-> [newCount |-> 0, totalSynced |-> 0]]
      /\ UNCHANGED <<mdFile, stateFile>>
      /\ UNCHANGED <<mergeVars, collectVars, classifyVars, rankVars, hubVars, walletVars, cryptoVars>>

\* lines 164-171: load the state, filter, return when nothing is new
LoadState ==
  LET \* line 166: entries with a skillId that the loaded state does not hold
      FilterNew(discoveries, synced) ==
        SelectSeq(discoveries, LAMBDA id : id # 0 /\ id \notin Range(synced))
  IN  LET \* loadState, lines 50-57: a missing or unreadable file is an empty state
          loadState(file) ==
            IF file.exists THEN file.content ELSE <<>>
      IN  /\ sync.pc = "load"
          /\ LET synced     == loadState(stateFile)
                 newEntries == FilterNew(sync.discoveries, synced)
             IN  sync' = IF Len(newEntries) = 0
                           THEN [sync EXCEPT !.pc = "idle", !.outcome = "returned",
                                             !.synced = synced,
                                             !.result = [newCount    |-> 0,
                                                         totalSynced |-> Cardinality(Range(synced))]]
                           ELSE [sync EXCEPT !.pc = "append", !.synced = synced,
                                             !.newEntries = newEntries]
          /\ UNCHANGED <<mdFile, stateFile>>
          /\ UNCHANGED <<mergeVars, collectVars, classifyVars, rankVars, hubVars, walletVars, cryptoVars>>

\* line 174
AppendToMd ==
  /\ sync.pc = "append"
  /\ mdFile' = appendToMd(mdFile, sync.newEntries)
  /\ sync' = [sync EXCEPT !.pc = "save"]
  /\ UNCHANGED stateFile
  /\ UNCHANGED <<mergeVars, collectVars, classifyVars, rankVars, hubVars, walletVars, cryptoVars>>

\* line 174, the write rejects: syncDiscoveries throws
AppendToMdFails ==
  /\ sync.pc = "append"
  /\ sync' = Finished("ioError", sync.result)
  /\ UNCHANGED <<mdFile, stateFile>>
  /\ UNCHANGED <<mergeVars, collectVars, classifyVars, rankVars, hubVars, walletVars, cryptoVars>>

\* lines 178-189
SaveState ==
  LET \* lines 165 and 178-181: Array.from of the Set of old and new ids
      AllIds(synced, entries) ==
        LET list == synced \o entries
        IN  InsertionOrder(list, 1, Len(list))
  IN  /\ sync.pc = "save"
      /\ LET allIds == AllIds(sync.synced, sync.newEntries)
         IN  /\ stateFile' = [exists |-> TRUE, content |-> Truncate(allIds)]
             /\ sync' = [sync EXCEPT !.pc = "idle", !.outcome = "returned",
                                     !.allIds = allIds,
                                     !.result = [newCount    |-> Len(sync.newEntries),
                                                 totalSynced |-> Len(allIds)]]
      /\ UNCHANGED mdFile
      /\ UNCHANGED <<mergeVars, collectVars, classifyVars, rankVars, hubVars, walletVars, cryptoVars>>

\* line 187, the write rejects: syncDiscoveries throws
SaveStateFails ==
  /\ sync.pc = "save"
  /\ sync' = Finished("ioError", sync.result)
  /\ UNCHANGED <<mdFile, stateFile>>
  /\ UNCHANGED <<mergeVars, collectVars, classifyVars, rankVars, hubVars, walletVars, cryptoVars>>

NextSync ==
  \/ Fetch
  \/ LoadState
  \/ AppendToMd
  \/ AppendToMdFails
  \/ SaveState
  \/ SaveStateFails

SpecSync == InitSync /\ [][NextSync]_vars

----------------------------------------------------------------------------
(* WalletStorage.saveUserWallet, part_005 lines 113-150, called twice at   *)
(* the same time on one storage file.  Each await of a call is a step of   *)
(* its own, so the steps of the two calls interleave.  The file is the set *)
(* of its records, one per userId.                                          *)

\* a record of the store, lines 139-146, without its timestamps
WalletRecord(userId, walletAddress, encrypted) ==
  [userId |-> userId, walletAddress |-> walletAddress, encrypted |-> encrypted]

InitWallet ==
  LET \* the two calls, for different users
      SaverInputs ==
        LET \* privateKey of a call: none, one that encrypts, one given while
            \* WALLET_ENCRYPTION_SECRET is missing or too weak
            PrivateKeyInputs ==
              {"none", "valid", "noSecret"}
        IN  LET WalletAddresses ==
                  {"0xA1", "0xB2"}
            IN  { <<[pc |-> "ensureLoad", userId |-> "alice", walletAddress |-> a1,
                     privateKey |-> k1, records |-> {}],
                    [pc |-> "ensureLoad", userId |-> "bob", walletAddress |-> a2,
                     privateKey |-> k2, records |-> {}]>> :
                  a1 \in WalletAddresses, a2 \in WalletAddresses,
                  k1 \in PrivateKeyInputs, k2 \in {"none", "valid"} }
  IN  LET \* the storage before the two calls: none, an empty one, one with the record
          \* of a third user, one with an older record of the first caller
          WalletFileInputs ==
            { [exists |-> FALSE, content |-> {}],
              [exists |-> TRUE, content |-> {}],
              [exists |-> TRUE, content |-> {WalletRecord("carol", "0xC3", FALSE)}],
              [exists |-> TRUE, content |-> {WalletRecord("alice", "0xB2", TRUE)}] }
      IN  /\ MergeIdle
          /\ CollectIdle
          /\ ClassifyIdle
          /\ RankIdle
          /\ HubIdle
          /\ SyncIdle
          /\ CryptoIdle
          /\ walletFile \in WalletFileInputs
          /\ savers \in SaverInputs

\* ensureStorageExists, lines 41-48: fs.access of the directory
EnsureStorageExists(i) ==
  /\ savers[i].pc \in {"ensureLoad", "ensureSave"}
  /\ LET after == IF savers[i].pc = "ensureLoad" THEN "read" ELSE "write"
         init  == IF savers[i].pc = "ensureLoad" THEN "initLoad" ELSE "initSave"
     IN  savers' = [savers EXCEPT ![i].pc = IF walletFile.exists THEN after ELSE init]
  /\ UNCHANGED walletFile
  /\ UNCHANGED <<mergeVars, collectVars, classifyVars, rankVars, hubVars, syncVars, cryptoVars>>

\* ensureStorageExists, lines 45-46: mkdir and the write of an empty store
InitStorage(i) ==
  /\ savers[i].pc \in {"initLoad", "initSave"}
  /\ walletFile' = [exists |-> TRUE, content |-> {}]
  /\ savers' = [savers EXCEPT ![i].pc = IF savers[i].pc = "initLoad" THEN "read" ELSE "write"]
  /\ UNCHANGED <<mergeVars, collectVars, classifyVars, rankVars, hubVars, syncVars, cryptoVars>>

\* loadRecords, lines 56-61, then lines 118-146 up to the next await
LoadRecords(i) ==
  LET \* records[userId] = {...}, lines 139-146
      PutRecord(records, rec) ==
        {r \in records : r.userId # rec.userId} \cup {rec}
  IN  /\ savers[i].pc = "read"
      /\ LET me      == savers[i]
             records == IF walletFile.exists THEN walletFile.content ELSE {}
         IN  savers' =
               IF me.privateKey = "noSecret"
                 THEN [savers EXCEPT ![i].pc = "threw", ![i].records = records]
                 ELSE [savers EXCEPT
                         ![i].pc = "ensureSave",
                         ![i].records =
                           PutRecord(records,
                                     WalletRecord(me.userId, me.walletAddress,
                                                  me.privateKey = "valid"))]
      /\ UNCHANGED walletFile
      /\ UNCHANGED <<mergeVars, collectVars, classifyVars, rankVars, hubVars, syncVars, cryptoVars>>

\* saveRecords, line 69: the whole file is replaced by the records of the call
SaveRecords(i) ==
  /\ savers[i].pc = "write"
  /\ walletFile' = [exists |-> TRUE, content |-> savers[i].records]
  /\ savers' = [savers EXCEPT ![i].pc = "done"]
  /\ UNCHANGED <<mergeVars, collectVars, classifyVars, rankVars, hubVars, syncVars, cryptoVars>>

NextWallet ==
  \/ \E i \in 1..2 : EnsureStorageExists(i)
  \/ \E i \in 1..2 : InitStorage(i)
  \/ \E i \in 1..2 : LoadRecords(i)
  \/ \E i \in 1..2 : SaveRecords(i)

SpecWallet == InitWallet /\ [][NextWallet]_vars

----------------------------------------------------------------------------
(* encryptPrivateKey and decryptPrivateKey, part_004 lines 36-108.  A      *)
(* string is the sequence of its characters.  PBKDF2 and AES-256-GCM are   *)
(* symbolic: a derived key is the pair of its secret and salt, a cipher    *)
(* text names the key, the iv and the plain text it was made from, and it  *)
(* opens only under that key and iv with its own authentication tag.       *)

MaxKeyLen == 3

MaxEncryptions == 2

\* the strings of at most n characters
RECURSIVE StringsUpTo(_)
StringsUpTo(n) ==
  LET KeyChars ==
        {"0", "x", "a"}
  IN  IF n = 0 THEN {<<>>}
      ELSE LET shorter == StringsUpTo(n - 1)
           IN  shorter \cup {Append(str, c) : str \in shorter, c \in KeyChars}

\* secrets by name and length: one too short, two that pass line 37
Secrets ==
  { [name |-> "short", length |-> 31],
    [name |-> "s32", length |-> 32],
    [name |-> "s40", length |-> 40] }

\* lines 37 and 78: !secret || secret.length < 32
SecretRejected(secret) == secret.length < 32

\* privateKey.startsWith('0x')
StartsWith0x(str) == Len(str) >= 2 /\ str[1] = "0" /\ str[2] = "x"

\* variant: the key is encrypted as given
CleanPrivateKey_Unchanged(privateKey) == privateKey

\* line 42
CleanPrivateKey(privateKey) ==
  IF StartsWith0x(privateKey) THEN SubSeq(privateKey, 3, Len(privateKey))
  ELSE privateKey

\* lines 19-27
deriveKey(secret, salt) == <<secret.name, salt>>

\* lines 52-58: cipher text and authentication tag of AES-256-GCM
Cipher(key, iv, plain) == [key |-> key, iv |-> iv, plain |-> plain]

\* lines 36-68, for the salt and iv that randomBytes returned
encryptPrivateKey(privateKey, secret, salt, iv) ==
  IF SecretRejected(secret)
    THEN [threw |-> TRUE, salt |-> 0, iv |-> 0,
          authTag |-> Cipher(<<>>, 0, <<>>), encrypted |-> Cipher(<<>>, 0, <<>>)]
    ELSE LET key == deriveKey(secret, salt)
             box == Cipher(key, iv, CleanPrivateKey(privateKey))
         IN  [threw |-> FALSE, salt |-> salt, iv |-> iv,
              authTag |-> box, encrypted |-> box]

\* lines 77-108; decipher.final throws when key, iv or tag do not fit
decryptPrivateKey(encryptedData, secret) ==
  IF SecretRejected(secret) THEN [threw |-> TRUE, value |-> <<>>]
  ELSE LET key == deriveKey(secret, encryptedData.salt)
           box == encryptedData.encrypted
       IN  IF /\ box.key = key
              /\ box.iv = encryptedData.iv
              /\ encryptedData.authTag = box
             THEN [threw |-> FALSE, value |-> <<"0", "x">> \o box.plain]
             ELSE [threw |-> TRUE, value |-> <<>>]

InitCrypto ==
  LET PrivateKeyStrings ==
        StringsUpTo(MaxKeyLen)
  IN  /\ MergeIdle
      /\ CollectIdle
      /\ ClassifyIdle
      /\ RankIdle
      /\ HubIdle
      /\ SyncIdle
      /\ WalletIdle
      /\ cryptoInput \in [privateKey : PrivateKeyStrings, secret : Secrets]
      /\ ciphertexts = <<>>
      /\ decrypted = <<>>

\* one more encryption of the key under the secret
EncryptPrivateKey ==
  LET RandomBytes ==
        {1, 2}
  IN  /\ Len(ciphertexts) < MaxEncryptions
      /\ \E salt \in RandomBytes, iv \in RandomBytes :
           ciphertexts' = Append(ciphertexts,
                                 encryptPrivateKey(cryptoInput.privateKey,
                                                   cryptoInput.secret, salt, iv))
      /\ UNCHANGED <<cryptoInput, decrypted>>
      /\ UNCHANGED <<mergeVars, collectVars, classifyVars, rankVars, hubVars, syncVars, walletVars>>

\* the next cipher text that encryptPrivateKey returned is decrypted, under
\* the secret of the encryption or another one
DecryptPrivateKey ==
  /\ Len(decrypted) < Len(ciphertexts)
  /\ ~ciphertexts[Len(decrypted) + 1].threw
  /\ \E secret \in Secrets :
       decrypted' = Append(decrypted,
                           [secret |-> secret,
                            result |-> decryptPrivateKey(ciphertexts[Len(decrypted) + 1],
                                                         secret)])
  /\ UNCHANGED <<cryptoInput, ciphertexts>>
  /\ UNCHANGED <<mergeVars, collectVars, classifyVars, rankVars, hubVars, syncVars, walletVars>>

NextCrypto ==
  \/ EncryptPrivateKey
  \/ DecryptPrivateKey

SpecCrypto == InitCrypto /\ [][NextCrypto]_vars

----------------------------------------------------------------------------
(* Properties of mergeSignals, checked under SpecMerge *)

EventCount == IF feedback.present THEN feedback.eventCount ELSE 0

Nudges == {merged.dimensionNudges.conviction, merged.dimensionNudges.intuition,
           merged.dimensionNudges.contribution}

\* C1: whatever the conversation list, static profile and feedback are, the
\* returned mainCategories has at most 3 entries and no category twice.
C1_MainAtMostThreeUnique ==
  merged.returned =>
    /\ Len(merged.mainCategories) <= 3
    /\ NoDuplicates(merged.mainCategories)

C1_Witness ==
  /\ merged.returned
  /\ userMd.present
  /\ feedback.present
  /\ Len(conversationCategories) > 3
  /\ ~NoDuplicates(conversationCategories)
  /\ Len(merged.mainCategories) = 3

\* C2 as stated: with no static profile and no feedback, mainCategories is
\* the conversation list itself, whatever that list is.
C2_MainIdenticalToConversation ==
  (merged.returned /\ ~userMd.present /\ ~feedback.present) =>
    merged.mainCategories = conversationCategories

\* C2 amended: with no static profile and no feedback, and a conversation
\* list without repeated names, mainCategories is the first three entries of
\* the conversation list in their order (the whole list when it has at most
\* three entries).
C2_MainIsConversationPrefix ==
  (merged.returned /\ ~userMd.present /\ ~feedback.present
     /\ NoDuplicates(conversationCategories)) =>
    merged.mainCategories = Slice(conversationCategories, 0, 3)

C2_Witness ==
  /\ merged.returned
  /\ ~userMd.present
  /\ ~feedback.present
  /\ NoDuplicates(conversationCategories)
  /\ Len(conversationCategories) > 3
  /\ merged.mainCategories = Slice(conversationCategories, 0, 3)

C5_NudgesBounded ==
  merged.returned =>
    /\ Nudges \subseteq -15..15
    /\ ~userMd.present => Nudges = {0}

C5_Witness ==
  /\ merged.returned
  /\ userMd.present
  /\ userMd.workingStyle = "deep-focus"
  /\ "founder" \in userMd.role
  /\ "research" \in userMd.role
  /\ EventCount = 0
  /\ merged.dimensionNudges.conviction = 15
  /\ merged.dimensionNudges.intuition = 10

\* C6: feedbackWeight is min(0.3, eventCount * 0.02): 0 for no events, never
\* above 0.3, 0.3 from 15 events on, never smaller than for fewer events;
\* absent feedback counts as no events.
C6_FeedbackWeightSchedule ==
  weights.computed =>
    /\ EventCount = 0 => weights.feedbackWeight = 0
    /\ EventCount < 15 => weights.feedbackWeight * 100 = EventCount * 2 * One
    /\ EventCount >= 15 => weights.feedbackWeight * 10 = 3 * One
    /\ weights.feedbackWeight * 10 <= 3 * One
    /\ \A fewer \in 0..EventCount : FeedbackWeight(fewer) <= weights.feedbackWeight
    /\ ~feedback.present => weights.feedbackWeight = 0

C6_Witness ==
  /\ weights.computed
  /\ feedback.present
  /\ feedback.eventCount > 15
  /\ weights.feedbackWeight * 10 = 3 * One

\* C7: staticWeight is max(0.2, 0.3 - 0.33 * feedbackWeight) with a static
\* profile and 0 without, conversationWeight is 1 - staticWeight -
\* feedbackWeight, each weight is within [0, 1] and the three sum to 1.
C7_WeightsSumToOne ==
  weights.computed =>
    /\ userMd.present =>
         weights.userMdWeight * 100 =
           Max(20 * One, 30 * One - 33 * weights.feedbackWeight)
    /\ ~userMd.present => weights.userMdWeight = 0
    /\ weights.convWeight = One - weights.userMdWeight - weights.feedbackWeight
    /\ {weights.feedbackWeight, weights.userMdWeight, weights.convWeight} \subseteq 0..One
    /\ weights.feedbackWeight + weights.userMdWeight + weights.convWeight = One

C7_Witness ==
  /\ weights.computed
  /\ userMd.present
  /\ feedback.present
  /\ feedback.eventCount = 5
  /\ weights.feedbackWeight = 1000
  /\ weights.userMdWeight = 2670
  /\ weights.convWeight = 6330

\* C8: with a static profile the split is conversation 0.6 / static 0.3 /
\* feedback 0.1 when there are no feedback events, and conversation 0.5 /
\* static 0.2 / feedback 0.3 from 10 events on.
C8_DocumentedSplit ==
  (weights.computed /\ userMd.present) =>
    /\ EventCount = 0 =>
         /\ weights.convWeight * 10 = 6 * One
         /\ weights.userMdWeight * 10 = 3 * One
         /\ weights.feedbackWeight * 10 = 1 * One
    /\ EventCount >= 10 =>
         /\ weights.convWeight * 10 = 5 * One
         /\ weights.userMdWeight * 10 = 2 * One
         /\ weights.feedbackWeight * 10 = 3 * One

----------------------------------------------------------------------------
(* Properties of collect, checked under SpecCollect *)

InSources(name) == name \in Range(userData.sources)

\* C3: when the session reader reports fewer than 3 messages, the returned
\* UserData marks the conversation source unavailable and carries no
\* conversation bundle in its place.
C3_InsufficientMessagesUnavailable ==
  (pc = "done" /\ session.outcome = "ok" /\ session.messageCount < 3) =>
    /\ userData.dataQuality.conversation = "none"
    /\ userData.permissions.conversation = FALSE
    /\ ~InSources("Conversation")
    /\ ~userData.conversationMemory.present

ConversationFailed == session.outcome = "throw"

TwitterFailedOrEmpty ==
  \/ twitterApi.outcome # "ok"
  \/ twitterApi.bio = "" /\ twitterApi.tweets = <<>>

WalletFailedOrEmpty == walletStore.outcome # "ok"

\* C9: collect always returns a UserData; a source whose fetch failed or
\* came back empty has quality 'none' and is not in sources, and the other
\* sources are recorded as if that failure had not happened.
C9_FailedSourceUnavailable ==
  pc = "done" =>
    /\ ConversationFailed =>
         userData.dataQuality.conversation = "none" /\ ~InSources("Conversation")
    /\ (~options.skipTwitter /\ TwitterFailedOrEmpty) =>
         userData.dataQuality.twitter = "none" /\ ~InSources("Twitter")
    /\ (options.includeWallet /\ WalletFailedOrEmpty) => ~InSources("Wallet")
    /\ (~options.skipTwitter /\ ~TwitterFailedOrEmpty) =>
         userData.dataQuality.twitter = "real" /\ InSources("Twitter")
    /\ (options.includeWallet /\ ~WalletFailedOrEmpty) => InSources("Wallet")

----------------------------------------------------------------------------
(* Properties of getDataQualityScore, checked under SpecQuality *)

Bonus(list, atLeast, points) == IF Len(list) >= atLeast THEN points ELSE 0

\* C10: the score is 70 plus 5 for each of >= 3 topics, >= 3 interests and
\* >= 5 history snippets when the conversation memory is present, plus 10
\* plus 3 for >= 10 tweets and 2 for >= 20 followed accounts when Twitter
\* data is present with quality 'real'; it is an integer within [0, 100].
C10_QualityScoreExact ==
  qualityScore # -1 =>
    /\ qualityScore =
         (IF userData.conversationMemory.present
            THEN 70 + Bonus(userData.conversationMemory.topics, 3, 5)
                    + Bonus(userData.conversationMemory.interests, 3, 5)
                    + Bonus(userData.conversationMemory.history, 5, 5)
            ELSE 0)
         +
         (IF userData.twitter.present /\ userData.dataQuality.twitter = "real"
            THEN 10 + Bonus(userData.twitter.tweets, 10, 3)
                    + Bonus(userData.twitter.following, 20, 2)
            ELSE 0)
    /\ qualityScore \in 0..100

C10_Witness ==
  /\ qualityScore = 100
  /\ Len(userData.conversationMemory.history) = 5
  /\ Len(userData.twitter.tweets) = 10
  /\ Len(userData.twitter.following) = 20

----------------------------------------------------------------------------
(* Properties of the classifier, checked under SpecClassify *)

\* C11: every dimension triple is given exactly one of the five identity
\* types, and every triple with contribution > 65 is The Cultivator whatever
\* conviction and intuition are.
C11_ClassifyTotalWithOverride ==
  identityType # "" =>
    /\ identityType \in IdentityTypes
    /\ dimensions.contribution > 65 => identityType = "The Cultivator"

C11_Witness ==
  /\ identityType = "The Cultivator"
  /\ dimensions.contribution = 66
  /\ dimensions.conviction = 100
  /\ dimensions.intuition = 100

C18_MergeSignalsTotal ==
  weights.computed =>
    /\ ~merged.threw
    /\ merged.returned
    /\ Len(merged.mainCategories) <= Max(3, Len(conversationCategories))
    /\ Len(merged.subCategories) <= 10
    /\ \A dim \in {"conviction", "intuition", "contribution"} :
         merged.dimensionNudges[dim] \in -15..15

C18_Witness ==
  /\ merged.returned
  /\ conversationCategories = <<>>
  /\ userMd.present /\ userMd.absent = UserMdFields
  /\ feedback.present /\ feedback.absent = FeedbackFields
  /\ merged.mainCategories = <<>>

Dimensions == {"conviction", "intuition", "contribution"}

\* Math.round(numerator / denominator) for a positive denominator, stated
\* as the two inequalities that define it
IsRounded(n, numerator, denominator) ==
  /\ 2 * numerator - denominator < 2 * denominator * n
  /\ 2 * denominator * n <= 2 * numerator + denominator

\* C19 as stated: a nudge is the raw sum of its rules scaled by
\* userMdWeight / 0.3 and rounded, and only then clamped to -15..15.
C19_ScaledThenClamped ==
  (merged.returned /\ userMd.present) =>
    \A dim \in Dimensions :
      \E scaled \in -30..30 :
        /\ IsRounded(scaled, RawNudgeSums(userMd)[dim] * weights.userMdWeight, 3000)
        /\ merged.dimensionNudges[dim] =
             (IF scaled > 15 THEN 15 ELSE IF scaled < -15 THEN -15 ELSE scaled)

\* C19 amended: the raw sum is clamped to -15..15 first, and the clamped
\* value is then scaled by userMdWeight / 0.3 and rounded.
C19_ClampedThenScaled ==
  (merged.returned /\ userMd.present) =>
    \A dim \in Dimensions :
      LET sum     == RawNudgeSums(userMd)[dim]
          clamped == IF sum > 15 THEN 15 ELSE IF sum < -15 THEN -15 ELSE sum
      IN  IsRounded(merged.dimensionNudges[dim], clamped * weights.userMdWeight, 3000)

C19_Witness ==
  /\ merged.returned
  /\ userMd.present
  /\ userMd.workingStyle = "deep-focus"
  /\ "founder" \in userMd.role
  /\ RawNudgeSums(userMd).conviction = 25
  /\ EventCount = 15
  /\ merged.dimensionNudges.conviction = 10

\* the score a scoreboard holds for a category that is on it
ScoreOf(m, cat) == m.score[CHOOSE i \in DOMAIN m.order : m.order[i] = cat]

\* feedbackWeight * (multiplier - 1.0), in the unit of the scoreboard
IntroducedScore(multiplier) == weights.feedbackWeight * (multiplier - 100) * 10

FeedbackApplied == weights.computed /\ merged.returned /\ feedback.present

\* C20 as stated: a category on the scoreboard has its score multiplied by
\* its feedback multiplier; a category not on it is added iff its multiplier
\* is above 1.2, with score feedbackWeight * (multiplier - 1.0).
C20_PresentMultipliedAbsentAdded ==
  FeedbackApplied =>
    \A k \in DOMAIN feedback.categoryWeights :
      LET cat        == feedback.categoryWeights[k].cat
          multiplier == feedback.categoryWeights[k].weight
      IN  IF MapHas(categoryScores.base, cat)
            THEN /\ MapHas(categoryScores.final, cat)
                 /\ ScoreOf(categoryScores.final, cat)
                      = (ScoreOf(categoryScores.base, cat) \div 100) * multiplier
            ELSE IF multiplier > 120
              THEN /\ MapHas(categoryScores.final, cat)
                   /\ ScoreOf(categoryScores.final, cat) = IntroducedScore(multiplier)
              ELSE ~MapHas(categoryScores.final, cat)

\* categories named by the conversation list only at its 11th entry or
\* later (index 10 or more), and by no other source
LateOnlyCategories ==
  { cat \in Range(conversationCategories) :
      /\ \A k \in DOMAIN conversationCategories :
           conversationCategories[k] = cat => k >= 11
      /\ userMd.present => cat \notin Range(mapUserMdToCategories(userMd))
                           /\ cat \notin Range(userMd.interests)
      /\ feedback.present =>
           \A k \in DOMAIN feedback.categoryWeights : feedback.categoryWeights[k].cat # cat }

MainAndSub == merged.mainCategories \o merged.subCategories

\* C21 as stated: a category whose only contribution comes from position 10
\* or later of a list (score 0 or less) is in neither mainCategories nor
\* subCategories.
C21_LateCategoriesIgnored ==
  merged.returned =>
    \A cat \in LateOnlyCategories : cat \notin Range(MainAndSub)

\* C21 amended: such a category stays on the scoreboard with its score of 0
\* or less, ranks after every category with a positive score, and is
\* returned like any other: among the main categories when fewer than three
\* categories rank before it, else among the sub-categories as long as the
\* cap of 10 leaves room.
C21_LateCategoriesRankedLast ==
  merged.returned =>
    \A cat \in LateOnlyCategories :
      /\ MapHas(categoryScores.final, cat)
      /\ ScoreOf(categoryScores.final, cat) <= 0
      /\ Len(categoryScores.final.order) <= 13 => cat \in Range(MainAndSub)
      /\ cat \in Range(merged.mainCategories) =>
           Cardinality({c \in Range(categoryScores.final.order) :
                          ScoreOf(categoryScores.final, c) > 0}) < 3

C21_Witness ==
  /\ merged.returned
  /\ {"Gaming", "Travel"} \subseteq LateOnlyCategories
  /\ "Gaming" \in Range(merged.subCategories)
  /\ "Travel" \in Range(merged.subCategories)
  /\ ScoreOf(categoryScores.final, "Travel") < 0

\* C22: with a non-empty conversation list the returned mainCategories is
\* never empty, whatever the static profile and the feedback; and when the
\* scoreboard is empty the returned mainCategories is the conversation list
\* itself.
C22_MainNeverEmptyWithConversation ==
  merged.returned =>
    /\ conversationCategories # <<>> => merged.mainCategories # <<>>
    /\ categoryScores.final.order = <<>> =>
         merged.mainCategories = conversationCategories

C22_Witness ==
  /\ merged.returned
  /\ conversationCategories = <<"Crypto">>
  /\ userMd.present
  /\ feedback.present
  /\ Len(categoryScores.final.order) = 2
  /\ Len(merged.mainCategories) = 2

\* the scored categories ranked 4th and lower, best score first
LowerRanked ==
  LET sorted == SortByScoreDesc(categoryScores.final.order, categoryScores.final.score)
  IN  [k \in 1..Max(0, Len(sorted) - 3) |-> sorted[k + 3]]

DeclaredInterests == IF userMd.present THEN userMd.interests ELSE <<>>

\* positions of the declared interests that add a new name: not a lower
\* ranked category and not declared before
NewInterestPositions ==
  { j \in DOMAIN DeclaredInterests :
      /\ DeclaredInterests[j] \notin Range(LowerRanked)
      /\ \A i \in 1..(j - 1) : DeclaredInterests[i] # DeclaredInterests[j] }

\* C23: subCategories is the first 10 entries of the deduplicated sequence
\* made of the scored categories ranked 4th and lower, in descending score
\* order, followed by the declared interests in declared order; under the
\* cap the scored categories are kept first.
C23_SubCategoriesOrder ==
  merged.returned =>
    /\ Len(merged.subCategories)
         = Min(10, Len(LowerRanked) + Cardinality(NewInterestPositions))
    /\ \A k \in DOMAIN merged.subCategories :
         k <= Len(LowerRanked) => merged.subCategories[k] = LowerRanked[k]
    /\ \A j \in NewInterestPositions :
         LET k == Len(LowerRanked) + Cardinality({i \in NewInterestPositions : i <= j})
         IN  k <= 10 => merged.subCategories[k] = DeclaredInterests[j]

C23_Witness ==
  /\ merged.returned
  /\ Len(LowerRanked) = 7
  /\ Cardinality(NewInterestPositions) = 4
  /\ Len(DeclaredInterests) = 5
  /\ Len(merged.subCategories) = 10
  /\ merged.subCategories[8] = DeclaredInterests[1]

----------------------------------------------------------------------------
(* Order of the fetches of collect, checked under SpecCollect *)

\* the sources a collect call fetches, in the order of lines 118-169
RequestedSources ==
  <<"Conversation">>
  \o (IF ~options.skipTwitter THEN <<"Twitter">> ELSE <<>>)
  \o (IF options.includeWallet THEN <<"Wallet">> ELSE <<>>)

\* C17 as stated: the fetches are concurrent, every requested source is
\* started before any fetch has settled.
C17_FetchesStartedConcurrently ==
  \A i \in DOMAIN fetchLog :
    fetchLog[i].event = "settle" =>
      \A k \in DOMAIN RequestedSources :
        \E j \in 1..(i - 1) :
          fetchLog[j] = [event |-> "start", source |-> RequestedSources[k]]

\* C17 amended: the fetches are sequential, in the order conversation,
\* Twitter, wallet: a fetch is started only after the fetch before it has
\* settled, whatever its outcome, and collect returns after the last one
\* has settled.
C17_FetchesSequential ==
  LET expected == [i \in 1..(2 * Len(RequestedSources)) |->
                     [event  |-> IF i % 2 = 1 THEN "start" ELSE "settle",
                      source |-> RequestedSources[(i + 1) \div 2]]]
  IN  /\ Len(fetchLog) <= Len(expected)
      /\ \A i \in DOMAIN fetchLog : fetchLog[i] = expected[i]
      /\ pc \in {"return", "done"} => fetchLog = expected

C17_Witness ==
  /\ pc = "done"
  /\ session.outcome # "ok"
  /\ twitterApi.outcome = "ok"
  /\ Len(fetchLog) = 6
  /\ fetchLog[2] = [event |-> "settle", source |-> "Conversation"]
  /\ fetchLog[3] = [event |-> "start", source |-> "Twitter"]

\* C24: for the UserData a collect call returns, hasSufficientData is true
\* iff the session reader succeeded and reported at least 3 messages; a
\* failed read or fewer than 3 messages gives false.
C24_SufficientIffThreeMessages ==
  sufficient.called =>
    (sufficient.result <=> (session.outcome = "ok" /\ session.messageCount >= 3))

C24_Witness ==
  /\ sufficient.called
  /\ ~sufficient.result
  /\ session.outcome = "ok"
  /\ session.messageCount = 2
  /\ Len(session.topics) = 3
  /\ userData.conversationMemory.present

----------------------------------------------------------------------------
(* Properties of the ClawHub client, checked under SpecHub *)

ResultSlugs == {hubResult.skills[i].slug : i \in DOMAIN hubResult.skills}

\* C13: no skill whose id is in feedback.excludeSkillIds is in the
\* recommendations built from the merged profile, and the merged profile
\* carries exactly the excluded ids of the feedback.
C13_ExcludedNeverRecommended ==
  (request.op = "getRecommendations" /\ hubResult.returned) =>
    /\ merged.excludedSkillIds = (IF feedback.present THEN feedback.excludeSkillIds ELSE {})
    /\ ResultSlugs \cap merged.excludedSkillIds = {}

\* every hit the searches of the request returned, in category order
SearchHits == FlattenSearches(catalog, request.categories, request.limit)

HitsOf(slug) == {i \in DOMAIN SearchHits : SearchHits[i].slug = slug}

SearchDone == request.op = "searchMultipleCategories" /\ hubResult.returned

\* C16 as stated: every slug is kept once, with the attributes of its first
\* hit and the largest similarityScore over all its hits.
C16_KeepsMaximumRelevance ==
  SearchDone =>
    /\ NoDuplicates([i \in DOMAIN hubResult.skills |-> hubResult.skills[i].slug])
    /\ \A i \in DOMAIN hubResult.skills :
         LET kept == hubResult.skills[i]
         IN  /\ HitsOf(kept.slug) # {}
             /\ \A h \in HitsOf(kept.slug) :
                  (\A g \in HitsOf(kept.slug) : h <= g) => kept.name = SearchHits[h].name
             /\ \A h \in HitsOf(kept.slug) :
                  SearchHits[h].similarityScore <= kept.similarityScore

\* C16 amended: every slug that was hit is kept exactly once, and the kept
\* entry is the first hit of that slug unchanged, similarityScore included.
C16_KeepsFirstHit ==
  SearchDone =>
    /\ NoDuplicates([i \in DOMAIN hubResult.skills |-> hubResult.skills[i].slug])
    /\ ResultSlugs = {SearchHits[h].slug : h \in DOMAIN SearchHits}
    /\ \A i \in DOMAIN hubResult.skills :
         \A h \in HitsOf(hubResult.skills[i].slug) :
           (\A g \in HitsOf(hubResult.skills[i].slug) : h <= g) =>
             hubResult.skills[i] = SearchHits[h]

C16_Witness ==
  /\ SearchDone
  /\ Len(request.categories) = 2
  /\ Len(hubResult.skills) >= 2
  /\ \E i \in DOMAIN hubResult.skills :
       /\ Cardinality(HitsOf(hubResult.skills[i].slug)) = 2
       /\ \E h \in HitsOf(hubResult.skills[i].slug) :
            SearchHits[h].similarityScore > hubResult.skills[i].similarityScore

----------------------------------------------------------------------------
(* Properties of the recommendation scoring, checked under SpecRank *)

\* C14: the composite score is the sum of the category term (0 or 30), the
\* personality term (0..20), the conversation term (0..15) and the dimension
\* bonus (+5 each for conviction >= 70, intuition >= 70, contribution >= 65),
\* so it lies in 0..100, and a candidate with every term at its maximum
\* scores exactly 80.
C14_ScoreIsSumOfFourTerms ==
  ranked.done =>
    \A i \in DOMAIN candidates :
      LET c == candidates[i]
          category     == IF c.categoryMatch THEN 30 ELSE 0
          personality  == IF c.personalityKeywords >= 5 THEN 20
                          ELSE 4 * c.personalityKeywords
          conversation == IF c.conversationKeywords >= 3 THEN 15
                          ELSE 5 * c.conversationKeywords
          bonus        == 5 * Cardinality({d \in {"conviction", "intuition", "contribution"} :
                                             dimensions[d] >= (IF d = "contribution" THEN 65 ELSE 70)})
      IN  /\ ranked.scores[i] = category + personality + conversation + bonus
          /\ category \in {0, 30} /\ personality \in 0..20
          /\ conversation \in 0..15 /\ bonus \in 0..15
          /\ ranked.scores[i] \in 0..100
          /\ (category = 30 /\ personality = 20 /\ conversation = 15 /\ bonus = 15)
               => ranked.scores[i] = 80

C14_Witness ==
  /\ ranked.done
  /\ \E i \in DOMAIN candidates : ranked.scores[i] = 80
  /\ \E i \in DOMAIN candidates :
       ~candidates[i].categoryMatch /\ ranked.scores[i] = 50
  /\ dimensions.contribution = 65

RankedIds == {ranked.list[k].id : k \in DOMAIN ranked.list}

----------------------------------------------------------------------------
(* Properties of syncDiscoveries, checked under SpecSync *)

\* C25: over any sequence of calls on one output directory no skillId is
\* appended to bloom-discoveries.md more than once.
C25_NoSkillAppendedTwice ==
  Cardinality(Range(mdFile.content)) = Len(mdFile.content)

\* C26: a state file written by syncDiscoveries holds at most 500 ids and no
\* id twice, and when ids were dropped the kept ones are the 500 most
\* recently added.
C26_StateFileBounded ==
  stateFile.exists =>
    /\ Len(stateFile.content) <= 500
    /\ Cardinality(Range(stateFile.content)) = Len(stateFile.content)
    /\ (sync.outcome = "returned" /\ Len(sync.allIds) > 500) =>
         /\ Len(stateFile.content) = 500
         /\ \A k \in 1..500 :
              stateFile.content[k] = sync.allIds[Len(sync.allIds) - 500 + k]

C26_Witness ==
  /\ stateFile.exists
  /\ sync.outcome = "returned"
  /\ Len(sync.allIds) = 600
  /\ stateFile.content[1] = 101
  /\ stateFile.content[500] = 600

----------------------------------------------------------------------------
(* Properties of WalletStorage, checked under SpecWallet *)

\* C28: once two interleaved saveUserWallet calls for different users have
\* both completed, the store holds the record of each of them, and the
\* record of a user that neither call saves is as it was.
C28_NoSaveLost ==
  (savers # <<>> /\ \A i \in 1..2 : savers[i].pc = "done") =>
    /\ \A i \in 1..2 :
         \E r \in walletFile.content :
           /\ r.userId = savers[i].userId
           /\ r.walletAddress = savers[i].walletAddress
    /\ \A i \in 1..2 :
         \A r \in savers[i].records :
           r.userId \notin {savers[1].userId, savers[2].userId} => r \in walletFile.content

----------------------------------------------------------------------------
(* Properties of the encryption utilities, checked under SpecCrypto *)

\* the decryptions made under the secret of the encryption
SameSecretDecryptions ==
  {n \in DOMAIN decrypted : decrypted[n].secret = cryptoInput.secret}

\* C29 as stated: decrypting an encryption of a key under the same secret
\* returns the original key, with or without 0x prefix, for each of several
\* encryptions.
C29_RoundTripReturnsKey ==
  \A n \in SameSecretDecryptions :
    /\ ~decrypted[n].result.threw
    /\ decrypted[n].result.value = cryptoInput.privateKey

\* C29 amended: decrypting an encryption of a key under the same secret
\* returns the key with a 0x prefix: the original key when it starts with
\* 0x, and 0x followed by the key otherwise, for each of several encryptions.
C29_RoundTripReturnsPrefixedKey ==
  \A n \in SameSecretDecryptions :
    /\ ~decrypted[n].result.threw
    /\ decrypted[n].result.value =
         IF StartsWith0x(cryptoInput.privateKey) THEN cryptoInput.privateKey
         ELSE <<"0", "x">> \o cryptoInput.privateKey

C29_Witness ==
  /\ Len(decrypted) = 2
  /\ SameSecretDecryptions = {1, 2}
  /\ ciphertexts[1].salt # ciphertexts[2].salt
  /\ cryptoInput.privateKey = <<"a", "0">>
  /\ decrypted[1].result.value = <<"0", "x", "a", "0">>
  /\ decrypted[2].result.value = <<"0", "x", "a", "0">>

----------------------------------------------------------------------------
(* Properties of getRecommendations, checked under SpecHub *)

RecommendDone == request.op = "getRecommendations" /\ hubResult.returned

\* the slugs that the searches of a list of categories return
SlugsFound(categories, limitPerCategory) ==
  LET hits == FlattenSearches(catalog, categories, limitPerCategory)
  IN  {hits[i].slug : i \in DOMAIN hits}

\* C30: getRecommendations returns at most limit skills, no slug twice, in
\* non-increasing similarityScore order, and it has searched the
\* sub-categories only when the main-category searches returned fewer than
\* limit distinct skills; failed searches count as empty.
C30_RecommendationsBounded ==
  RecommendDone =>
    LET skills == hubResult.skills
    IN  /\ Len(skills) <= request.limit
        /\ \A i, j \in DOMAIN skills : i # j => skills[i].slug # skills[j].slug
        /\ \A i, j \in DOMAIN skills :
             i < j => skills[i].similarityScore >= skills[j].similarityScore
        /\ hubResult.subSearched =>
             Cardinality(SlugsFound(merged.mainCategories, 4)) < request.limit

C30_Witness ==
  /\ RecommendDone
  /\ hubResult.subSearched
  /\ request.limit = MaxLimit
  /\ Len(hubResult.skills) = MaxLimit
  /\ \E i \in DOMAIN catalog : ~catalog[i].ok
  /\ SlugsFound(merged.mainCategories, 4)
       \cap SlugsFound(Slice(merged.subCategories, 0, 3), 2) # {}

====
